---- MODULE Spec2Model ----
(***************************************************************************)
(* Model of the PDF export of FBC.py: the adaptive layout planner          *)
(* (create_adaptive_pdf_page), the adaptive page renderer                  *)
(* (_adaptive_pdf_page_global), the fixed A4 page paths and the two        *)
(* page-sequence drivers with their cancel flag and completion callback.   *)
(*                                                                         *)
(* Lengths are kept in hundredths of a point (Pt(595) is 595pt); scale     *)
(* factors are kept in thousandths.  Divisions round down where the        *)
(* program's floating point rounds to nearest.                             *)
(*                                                                         *)
(* Further sections model, each under a specification of its own: the      *)
(* drawing of the annotations of an image (SpecRender), the blending of a  *)
(* transparent image annotation (SpecBlend), the arrow heads (SpecArrow),  *)
(* the smoothing of pen paths (SpecPen), the wrapping of the feedback text *)
(* (SpecWrap), the feedback-text block (SpecText) and the editing of an    *)
(* item with extend_canvas and undo (SpecEdit).                            *)
(***************************************************************************)
EXTENDS Integers, Sequences, FiniteSets, TLC

\* Largest number of feedback items held at once.
MaxItems == 2

Pt(x) == x * 100

Max(a, b) == IF a >= b THEN a ELSE b

Min(a, b) == IF a <= b THEN a ELSE b

\* a / b as a scale factor in thousandths.
Ratio(a, b) == (a * 1000) \div b

\* a * s for a scale factor s in thousandths, without a wide intermediate.
MulScale(a, s) == (a \div 1000) * s + ((a % 1000) * s) \div 1000

(***************************************************************************)
(* Items.  An item carries its image size in pixels, the length of its     *)
(* stripped feedback text, the number of lines _wrap_text_for_pdf returns  *)
(* for that text at 11pt in the planning width, whether that measurement   *)
(* raises, and its annotations (type and opacity).                         *)
(***************************************************************************)
Ann(t, o) == [type |-> t, opacity |-> o]

Item(w, h, len, lines, raises, anns) ==
    [image |-> <<w, h>>, text_length |-> len, text_lines |-> lines,
     wrap_raises |-> raises, annotations |-> anns]

ItemPool ==
    { Item(1000, 1400, 0, 0, FALSE, <<>>),
      Item(1000, 1400, 120, 3, FALSE, <<Ann("arrow", 100), Ann("image", 100)>>),
      Item(400, 400, 2500, 60, FALSE, <<Ann("pen", 100)>>),
      Item(4000, 500, 700, 12, TRUE, <<Ann("rect", 100)>>),
      Item(1000, 3200, 0, 0, FALSE, <<>>),
      Item(2500, 50000, 120, 3, FALSE, <<Ann("text", 100), Ann("image", 50)>>),
      Item(100, 0, 80, 2, FALSE, <<>>),
      Item(0, 100, 0, 0, FALSE, <<>>) }

DpiChoices == {150, 300}

WEBTOON == "webtoon"
LANDSCAPE == "landscape"
PORTRAIT == "portrait"

\* reportlab's A4 page size, (595.27, 841.89).
A4 == <<59528, 84189>>

A4_PORTRAIT_WIDTH == Pt(595)
A4_PORTRAIT_HEIGHT == Pt(842)
A4_LANDSCAPE_WIDTH == Pt(842)
A4_LANDSCAPE_HEIGHT == Pt(595)

\* 5 * 72 / 25.4 points.
MarginPoints == (5 * 72 * 1000) \div 254

\* The value of self.adaptive_layout before any page was planned.
NoLayout ==
    [set |-> FALSE, page_width |-> 0, page_height |-> 0, margin_points |-> 0,
     image_width_pt |-> 0, image_height_pt |-> 0, text_area_height |-> 0,
     text_gap |-> 0, safe_gap |-> 0, orientation |-> "none",
     effective_dpi |-> 0, original_size |-> <<0, 0>>,
     scale_factor |-> 0, available_image_height |-> 0]

HasText(item) == item.text_length > 0

Orientation(w, h) ==
    IF w * 100 < 65 * h THEN WEBTOON
    ELSE IF w * 10 > 13 * h THEN LANDSCAPE
    ELSE PORTRAIT

\* Variant: the 300 DPI floor is forgotten.
EffectiveDpi_NoFloor(o, q) ==
    IF o = WEBTOON THEN Max(400, q) ELSE q

EffectiveDpi(o, q) ==
    IF o = WEBTOON THEN Max(400, Max(300, q)) ELSE Max(300, q)

\* Stage 2 of create_adaptive_pdf_page: the height of the text block.
TextAreaHeight(item) ==
    IF ~HasText(item) THEN 0
    ELSE IF item.wrap_raises
         THEN (IF item.text_length < 100 THEN Pt(80)
               ELSE IF item.text_length < 300 THEN Pt(120)
               ELSE IF item.text_length < 600 THEN Pt(160)
               ELSE Pt(200))
         ELSE Pt(item.text_lines * 18 + 30 + 15)

TextGap(item, o) ==
    IF ~HasText(item) THEN 0
    ELSE IF o = WEBTOON THEN Pt(10) ELSE Pt(15)

SafeGap(text_gap) == Max(text_gap * 2, Pt(30))

\* Variant: a quarter of the page instead of 35%.
MinImageHeight_Quarter(page_height) == (page_height * 25) \div 100

MinImageHeight(page_height) == (page_height * 35) \div 100

\* Variant: the long-strip ceiling is not applied.
ClampPageHeight_NoStripCeiling(o, page_height) ==
    IF o = WEBTOON THEN page_height ELSE Min(page_height, Pt(60 * 72))

\* The poster-size ceilings applied to every page.
ClampPageHeight(o, page_height) ==
    Min(page_height, IF o = WEBTOON THEN Pt(120 * 72) ELSE Pt(60 * 72))

ClampPageWidth(page_width) == Min(page_width, Pt(42 * 72))

\* Stage 5 for landscape and portrait images: the image is refitted to the
\* forced A4 page, the text block is reserved first.
PlanA4(o, w, h, dpi, iw, ih, tah0, gap, pw, ph0) ==
    LET m == MarginPoints
        available_width == pw - m * 2
        safe_gap == SafeGap(gap)
        reserved_for_text == tah0 + safe_gap + m * 2
        avail0 == ph0 - reserved_for_text
        min_image_height == MinImageHeight(ph0)
        small == avail0 < min_image_height
        avail == IF small THEN min_image_height ELSE avail0
        remaining_height == ph0 - avail - safe_gap - m * 2
        needed_height == avail + safe_gap + Pt(80) + m * 2
        grow == small /\ ~(remaining_height > Pt(50)) /\ needed_height > ph0
        tah == IF small /\ remaining_height > Pt(50) THEN remaining_height
               ELSE IF grow THEN Pt(80) ELSE tah0
        ph == IF grow THEN needed_height ELSE ph0
        scale_x == Ratio(available_width, iw)
        scale_y == Ratio(avail, ih)
        scale_factor == Min(scale_x, scale_y)
    IN  [set |-> TRUE, page_width |-> pw, page_height |-> ph,
         margin_points |-> m,
         image_width_pt |-> MulScale(iw, scale_factor),
         image_height_pt |-> MulScale(ih, scale_factor),
         text_area_height |-> tah, text_gap |-> gap, safe_gap |-> safe_gap,
         orientation |-> o, effective_dpi |-> dpi, original_size |-> <<w, h>>,
         scale_factor |-> scale_factor, available_image_height |-> avail]

\* Stages 4 and 5 for long-strip images.
PlanWebtoon(item, w, h, dpi, iw0, ih0, tah0, gap, pw0, ph0) ==
    LET min_width == (A4_PORTRAIT_WIDTH * 6) \div 10
        widen == pw0 < min_width
        sf == IF widen THEN Ratio(min_width, pw0) ELSE 1000
        pw1 == IF widen THEN min_width ELSE pw0
        ph1 == IF widen THEN MulScale(ph0, sf) ELSE ph0
        iw == IF widen THEN MulScale(iw0, sf) ELSE iw0
        ih == IF widen THEN MulScale(ih0, sf) ELSE ih0
        m == IF widen THEN MulScale(MarginPoints, sf) ELSE MarginPoints
        ph2 == Min(ph1, A4_PORTRAIT_HEIGHT * 30)
        pw == ClampPageWidth(pw1)
        ph == ClampPageHeight(WEBTOON, ph2)
        min_text_height == Pt(100)
        tah == IF tah0 < min_text_height /\ HasText(item)
               THEN min_text_height ELSE tah0
        webtoon_safe_gap == IF gap > 0 THEN Max(gap * 2, Pt(30)) ELSE Pt(30)
    IN  [set |-> TRUE, page_width |-> pw, page_height |-> ph,
         margin_points |-> m, image_width_pt |-> iw, image_height_pt |-> ih,
         text_area_height |-> tah, text_gap |-> gap,
         safe_gap |-> webtoon_safe_gap, orientation |-> WEBTOON,
         effective_dpi |-> dpi, original_size |-> <<w, h>>,
         scale_factor |-> 0, available_image_height |-> 0]

\* The layout create_adaptive_pdf_page stores for an image of non-zero height.
PlanLayout(item, quality) ==
    LET w == item.image[1]
        h == item.image[2]
        o == Orientation(w, h)
        dpi == EffectiveDpi(o, quality)
        iw == (w * 72 * 100) \div dpi
        ih == (h * 72 * 100) \div dpi
        tah == TextAreaHeight(item)
        gap == TextGap(item, o)
        pw0 == iw + MarginPoints * 2
        ph0 == MarginPoints + ih + gap + tah + MarginPoints
    IN  IF o = LANDSCAPE
        THEN PlanA4(o, w, h, dpi, iw, ih, tah, gap,
                    ClampPageWidth(A4_LANDSCAPE_WIDTH),
                    ClampPageHeight(o, Max(ph0, A4_LANDSCAPE_HEIGHT)))
        ELSE IF o = PORTRAIT
        THEN PlanA4(o, w, h, dpi, iw, ih, tah, gap,
                    ClampPageWidth(A4_PORTRAIT_WIDTH),
                    ClampPageHeight(o, Max(ph0, A4_PORTRAIT_HEIGHT)))
        ELSE PlanWebtoon(item, w, h, dpi, iw, ih, tah, gap, pw0, ph0)

\* create_adaptive_pdf_page: the returned page size and the value of
\* self.adaptive_layout afterwards.  A zero height raises at img_ratio, and
\* reading the image or the DPI setting may raise (raises); the handler
\* returns A4 and leaves the stored layout as it was.
create_adaptive_pdf_page(item, quality, layout_before, raises) ==
    IF raises \/ item.image[2] = 0
    THEN [page_size |-> A4, adaptive_layout |-> layout_before]
    ELSE LET l == PlanLayout(item, quality)
         IN  [page_size |-> <<l.page_width, l.page_height>>,
              adaptive_layout |-> l]

(***************************************************************************)
(* Pages.  A page records which item it belongs to (-1 for the title       *)
(* page), how its image was composited, the rectangle the image was drawn  *)
(* in, the feedback-text box when one was drawn, and the image size the    *)
(* layout it was positioned with had been computed for.  escaped tells     *)
(* that the call that drew the page let an exception out to its caller.    *)
(***************************************************************************)
VECTOR == "vector"
FLATTEN == "flatten"
NOTHING == "nothing"
TITLE == "title"

NoRect == <<0, 0, 0, 0>>

NoSize == <<-1, -1>>

Page(i, size, comp, rect, text, top, bottom, m, planned_for) ==
    [item |-> i, page_size |-> size, compositor |-> comp, image_rect |-> rect,
     text_drawn |-> text, text_top |-> top, text_bottom |-> bottom,
     margin |-> m, layout_of |-> planned_for, escaped |-> FALSE]

\* A page that showPage opened and nothing has drawn on yet.
EmptyPage(i, size) == Page(i, size, NOTHING, NoRect, FALSE, 0, 0, 0, NoSize)

TitlePage == Page(-1, A4, TITLE, NoRect, FALSE, 0, 0, 0, NoSize)

ImageAnnotations(item) ==
    SelectSeq(item.annotations, LAMBDA a : a.type = "image")

HasTransparentImages(item) ==
    \E k \in 1..Len(item.annotations) :
        /\ item.annotations[k].type = "image"
        /\ item.annotations[k].opacity < 100

\* _fallback_pdf_page: the flattened image, fitted and centred.  The pixel
\* size of the flattened image is used as a size in points.  A zero height
\* raises at img_ratio; the handler logs it and draws nothing.
FallbackRect(item, pw, ph) ==
    LET cw == Pt(item.image[1])
        ch == Pt(item.image[2])
        max_width == pw - Pt(50) * 2
        max_height == ph - Pt(65)
        img_ratio == Ratio(cw, ch)
        wide == cw > max_width
        nw0 == IF wide THEN max_width ELSE cw
        nh0 == IF wide THEN (max_width * 1000) \div img_ratio ELSE ch
        tall == nh0 > max_height
        nh == IF tall THEN max_height ELSE nh0
        nw == IF tall THEN MulScale(max_height, img_ratio) ELSE nw0
    IN  <<(pw - nw) \div 2, (ph - nh) \div 2, nw, nh>>

\* Variant: the handler of _fallback_pdf_page is missing, its exception
\* reaches the caller.
_fallback_pdf_page_Unguarded(item, index, pw, ph, fails) ==
    IF fails \/ item.image[2] = 0
    THEN [EmptyPage(index, <<pw, ph>>) EXCEPT !.escaped = TRUE]
    ELSE Page(index, <<pw, ph>>, FLATTEN, FallbackRect(item, pw, ph),
              FALSE, 0, 0, 0, NoSize)

_fallback_pdf_page(item, index, pw, ph, fails) ==
    IF fails \/ item.image[2] = 0
    THEN EmptyPage(index, <<pw, ph>>)
    ELSE Page(index, <<pw, ph>>, FLATTEN, FallbackRect(item, pw, ph),
              FALSE, 0, 0, 0, NoSize)

UltraSafeGap(safe_gap) == Max(safe_gap * 3, Pt(50))

\* The positions _adaptive_pdf_page_global derives from the stored layout:
\* <<image_x, image_y, text_y>>.
AdaptivePositions(layout, pw, ph) ==
    LET m == layout.margin_points
        ultra_safe_gap == UltraSafeGap(layout.safe_gap)
        image_x == (pw - layout.image_width_pt) \div 2
        image_y0 == ph - m - layout.image_height_pt
        text_bottom == (image_y0 - ultra_safe_gap) - layout.text_area_height
        min_text_bottom == m + Pt(30)
        needed_space == min_text_bottom - text_bottom
        image_y == IF text_bottom < min_text_bottom
                   THEN Min(image_y0 + needed_space, ph - m - Pt(50))
                   ELSE image_y0
    IN  <<image_x, image_y, image_y - ultra_safe_gap>>

\* _adaptive_pdf_page_global.  primary_raises: the preparation or drawing of
\* the base image raises; fallback_raises: _fallback_pdf_page raises inside.
_adaptive_pdf_page_global(item, index, pw, ph, layout, primary_raises, fallback_raises) ==
    IF ~layout.set
    THEN _fallback_pdf_page(item, index, pw, ph, fallback_raises)
    ELSE IF primary_raises
    THEN _fallback_pdf_page(item, index, pw, ph, fallback_raises)
    ELSE LET pos == AdaptivePositions(layout, pw, ph)
             rect == <<pos[1], pos[2], layout.image_width_pt, layout.image_height_pt>>
             text == layout.text_area_height > 0 /\ HasText(item)
             top == IF text THEN pos[3] ELSE 0
             bottom == IF text THEN pos[3] - layout.text_area_height ELSE 0
             fb == _fallback_pdf_page(item, index, pw, ph, fallback_raises)
         IN  IF layout.orientation = WEBTOON
             THEN Page(index, <<pw, ph>>, VECTOR, rect, text, top, bottom,
                       layout.margin_points, layout.original_size)
             ELSE IF HasTransparentImages(item) \/ Len(ImageAnnotations(item)) > 0
             THEN Page(index, <<pw, ph>>, fb.compositor, fb.image_rect, text,
                       top, bottom, layout.margin_points, layout.original_size)
             ELSE Page(index, <<pw, ph>>, VECTOR, rect, text, top, bottom,
                       layout.margin_points, layout.original_size)

\* Variant: only a translucent image annotation forces flattening.
FixedPage_OpaqueAsVector(item, index, primary_raises, fallback_raises) ==
    LET fb == _fallback_pdf_page(item, index, A4[1], A4[2], fallback_raises)
        text == HasText(item)
    IN  IF primary_raises THEN fb
        ELSE IF HasTransparentImages(item)
        THEN Page(index, A4, FLATTEN, NoRect, text, 0, 0, Pt(50), NoSize)
        ELSE Page(index, A4, VECTOR, NoRect, text, 0, 0, Pt(50), NoSize)

\* The page the A4 driver produces for an item: the transparency page, the
\* flattened page or the vector page; each falls back to _fallback_pdf_page
\* when it raises.
FixedPage(item, index, primary_raises, fallback_raises) ==
    LET fb == _fallback_pdf_page(item, index, A4[1], A4[2], fallback_raises)
        text == HasText(item)
    IN  IF HasTransparentImages(item)
        THEN (IF primary_raises THEN fb
              ELSE Page(index, A4, FLATTEN, NoRect, text, 0, 0, Pt(50), NoSize))
        ELSE IF Len(ImageAnnotations(item)) > 0
        THEN fb
        ELSE (IF primary_raises THEN fb
              ELSE Page(index, A4, VECTOR, NoRect, text, 0, 0, Pt(50), NoSize))

(***************************************************************************)
(* State.                                                                  *)
(***************************************************************************)
VARIABLES
    feedback_items,   \* the items, in order
    pdf_quality,      \* configured DPI
    pdf_page_mode,    \* "A4" or "adaptive"
    skip_title_page,  \* no title page
    adaptive_layout,  \* self.adaptive_layout
    pc,               \* where the export is
    index,            \* loop index of pdf_worker
    page_size,        \* page_width, page_height of the adaptive worker
    pages,            \* pages the canvas has closed
    cur,              \* the page the canvas is drawing on
    canceled,         \* progress.canceled
    result,           \* what pdf_worker returned
    saved,            \* c.save() was called
    file_exists,      \* a file exists at file_path
    reported,         \* what on_pdf_complete told the user
    call,             \* the function under study and its arguments
    frame,            \* its local variables while it runs
    ret,              \* what it returned
    current_item,     \* the item being annotated: image size and annotations
    histories,        \* undo_manager.histories: of that item, or by item id
    current_index     \* self.current_index

vars == <<feedback_items, pdf_quality, pdf_page_mode, skip_title_page,
          adaptive_layout, pc, index, page_size, pages, cur, canceled,
          result, saved, file_exists, reported, call, frame, ret,
          current_item, histories, current_index>>

\* The state of the application and of its export.
app_vars == <<feedback_items, pdf_quality, pdf_page_mode, skip_title_page,
              adaptive_layout, pc, index, page_size, pages, cur, canceled,
              result, saved, file_exists, reported>>

\* The state of one call of a function studied on its own.
call_vars == <<call, frame, ret>>

\* The item being annotated and its undo history.
edit_vars == <<current_item, histories, current_index>>

\* No item is being annotated.
EditIdle ==
    current_item = [id |-> "none"] /\ histories = <<>> /\ current_index = -1

NoCall == [fn |-> "none"]

NoFrame == [at |-> "none"]

NoRet == [done |-> FALSE]

export_vars == <<pc, index, page_size, pages, cur, canceled, result, saved,
                 file_exists, reported>>

\* The application after construction, no export running.
AppInit ==
    /\ feedback_items = <<>>
    /\ pdf_quality = 300
    /\ pdf_page_mode = "A4"
    /\ skip_title_page = FALSE
    /\ adaptive_layout = NoLayout
    /\ pc = "idle"
    /\ index = 0
    /\ page_size = A4
    /\ pages = <<>>
    /\ cur = EmptyPage(-1, A4)
    /\ canceled = FALSE
    /\ result = "none"
    /\ saved = FALSE
    /\ file_exists = FALSE
    /\ reported = "none"

Init ==
    /\ AppInit
    /\ EditIdle
    /\ call = NoCall
    /\ frame = NoFrame
    /\ ret = NoRet

\* add_feedback_item, with the text and annotations the user then gives it.
add_feedback_item(it) ==
    /\ pc = "idle"
    /\ Len(feedback_items) < MaxItems
    /\ feedback_items' = Append(feedback_items, it)
    /\ UNCHANGED <<pdf_quality, pdf_page_mode, skip_title_page,
                   adaptive_layout>>
    /\ UNCHANGED export_vars
    /\ UNCHANGED call_vars
    /\ UNCHANGED edit_vars

set_pdf_quality(q) ==
    /\ pc = "idle"
    /\ q # pdf_quality
    /\ pdf_quality' = q
    /\ UNCHANGED <<feedback_items, pdf_page_mode, skip_title_page,
                   adaptive_layout>>
    /\ UNCHANGED export_vars
    /\ UNCHANGED call_vars
    /\ UNCHANGED edit_vars

\* PDFInfoDialog stores the page mode and the title-page option and calls
\* start_pdf_generation, which submits pdf_worker.  The chosen file may
\* already exist.
start_pdf_generation(mode, skip, exists) ==
    /\ pc = "idle"
    /\ Len(feedback_items) > 0
    /\ pdf_page_mode' = mode
    /\ skip_title_page' = skip
    /\ file_exists' = exists
    /\ pc' = "prepare"
    /\ UNCHANGED <<feedback_items, pdf_quality, adaptive_layout, index,
                   page_size, pages, cur, canceled, result, saved, reported>>
    /\ UNCHANGED call_vars
    /\ UNCHANGED edit_vars

\* AdvancedProgressDialog.cancel, pressed while the dialog is open.
cancel ==
    /\ pc \notin {"idle", "done"}
    /\ ~canceled
    /\ canceled' = TRUE
    /\ UNCHANGED <<feedback_items, pdf_quality, pdf_page_mode,
                   skip_title_page, adaptive_layout, pc, index, page_size,
                   pages, cur, result, saved, file_exists, reported>>
    /\ UNCHANGED call_vars
    /\ UNCHANGED edit_vars

\* pdf_worker up to the loop: the canvas and the title page.
worker_prepare ==
    /\ pc = "prepare"
    /\ cur' = IF skip_title_page THEN EmptyPage(-1, A4) ELSE TitlePage
    /\ pages' = <<>>
    /\ index' = 0
    /\ page_size' = A4
    /\ pc' = "loop"
    /\ UNCHANGED <<feedback_items, pdf_quality, pdf_page_mode,
                   skip_title_page, adaptive_layout, canceled, result, saved,
                   file_exists, reported>>
    /\ UNCHANGED call_vars
    /\ UNCHANGED edit_vars

\* The head of one iteration: the cancel check, then showPage.
worker_loop_head ==
    /\ pc = "loop"
    /\ IF canceled
       THEN /\ result' = "cancelled"
            /\ pc' = "returned"
            /\ UNCHANGED <<pages, cur>>
       ELSE /\ IF index = 0 /\ skip_title_page
               THEN UNCHANGED <<pages, cur>>
               ELSE /\ pages' = Append(pages, cur)
                    /\ cur' = EmptyPage(index, cur.page_size)
            /\ pc' = IF pdf_page_mode = "adaptive" THEN "plan" ELSE "render"
            /\ UNCHANGED result
    /\ UNCHANGED <<feedback_items, pdf_quality, pdf_page_mode,
                   skip_title_page, adaptive_layout, index, page_size,
                   canceled, saved, file_exists, reported>>
    /\ UNCHANGED call_vars
    /\ UNCHANGED edit_vars

\* create_adaptive_pdf_page(item) and setPageSize.
worker_plan(plan_raises) ==
    /\ pc = "plan"
    /\ LET r == create_adaptive_pdf_page(feedback_items[index + 1],
                                         pdf_quality, adaptive_layout,
                                         plan_raises)
       IN  /\ adaptive_layout' = r.adaptive_layout
           /\ page_size' = r.page_size
           /\ cur' = [cur EXCEPT !.page_size = r.page_size]
    /\ pc' = "render"
    /\ UNCHANGED <<feedback_items, pdf_quality, pdf_page_mode,
                   skip_title_page, index, pages, canceled, result, saved,
                   file_exists, reported>>
    /\ UNCHANGED call_vars
    /\ UNCHANGED edit_vars

\* The page call of one iteration.  An exception that escapes the page call
\* of the A4 driver is answered with _fallback_pdf_page, one that escapes
\* the adaptive page call with a second adaptive page call; what escapes
\* those ends pdf_worker with an error result.
worker_render(primary_raises, fallback_raises) ==
    /\ pc = "render"
    /\ LET item == feedback_items[index + 1]
           first == IF pdf_page_mode = "adaptive"
                    THEN _adaptive_pdf_page_global(item, index, page_size[1],
                             page_size[2], adaptive_layout, primary_raises,
                             fallback_raises)
                    ELSE FixedPage(item, index, primary_raises, fallback_raises)
           second == IF pdf_page_mode = "adaptive"
                     THEN first
                     ELSE _fallback_pdf_page(item, index, A4[1], A4[2],
                                             fallback_raises)
           p == IF first.escaped THEN second ELSE first
       IN  IF p.escaped
           THEN /\ result' = "error"
                /\ pc' = "returned"
                /\ UNCHANGED <<cur, index>>
           ELSE /\ cur' = p
                /\ index' = index + 1
                /\ pc' = IF index + 1 < Len(feedback_items)
                         THEN "loop" ELSE "save"
                /\ UNCHANGED result
    /\ UNCHANGED <<feedback_items, pdf_quality, pdf_page_mode,
                   skip_title_page, adaptive_layout, page_size, pages,
                   canceled, saved, file_exists, reported>>
    /\ UNCHANGED call_vars
    /\ UNCHANGED edit_vars

\* c.save() and the success result.
worker_save ==
    /\ pc = "save"
    /\ pages' = Append(pages, cur)
    /\ saved' = TRUE
    /\ file_exists' = TRUE
    /\ result' = "success"
    /\ pc' = "returned"
    /\ UNCHANGED <<feedback_items, pdf_quality, pdf_page_mode,
                   skip_title_page, adaptive_layout, index, page_size, cur,
                   canceled, reported>>
    /\ UNCHANGED call_vars
    /\ UNCHANGED edit_vars

\* Variant: a cancelled export leaves the file where it is.
CompletionOutcome_KeepFile(res) ==
    IF res = "cancelled" THEN <<"cancelled", FALSE>>
    ELSE IF res = "error" THEN <<"error", FALSE>>
    ELSE IF res = "success" THEN <<"success", FALSE>>
    ELSE <<"none", FALSE>>

\* What on_pdf_complete does with a result: <<report, remove the file>>.
CompletionOutcome(res) ==
    IF res = "cancelled" THEN <<"cancelled", TRUE>>
    ELSE IF res = "error" THEN <<"error", FALSE>>
    ELSE IF res = "success" THEN <<"success", FALSE>>
    ELSE <<"none", FALSE>>

on_pdf_complete ==
    /\ pc = "returned"
    /\ LET o == CompletionOutcome(result)
       IN  /\ reported' = o[1]
           /\ file_exists' = IF o[2] THEN FALSE ELSE file_exists
    /\ pc' = "done"
    /\ UNCHANGED <<feedback_items, pdf_quality, pdf_page_mode,
                   skip_title_page, adaptive_layout, index, page_size, pages,
                   cur, canceled, result, saved>>
    /\ UNCHANGED call_vars
    /\ UNCHANGED edit_vars

Next ==
    \/ \E it \in ItemPool : add_feedback_item(it)
    \/ \E q \in DpiChoices : set_pdf_quality(q)
    \/ \E mode \in {"A4", "adaptive"}, skip \in BOOLEAN, exists \in BOOLEAN :
          start_pdf_generation(mode, skip, exists)
    \/ cancel
    \/ worker_prepare
    \/ worker_loop_head
    \/ \E plan_raises \in BOOLEAN : worker_plan(plan_raises)
    \/ \E pr \in BOOLEAN, fr \in BOOLEAN : worker_render(pr, fr)
    \/ worker_save
    \/ on_pdf_complete

Spec == Init /\ [][Next]_vars

(***************************************************************************)
(* Properties.                                                             *)
(***************************************************************************)
\* Every page of the canvas, closed or open.
AllPages == {pages[k] : k \in 1..Len(pages)} \cup {cur}

ItemOf(p) == feedback_items[p.item + 1]

Adaptive == pdf_page_mode = "adaptive"

\* A page whose image was placed at the rectangle of the stored layout.
PlacedByLayout(p) ==
    /\ Adaptive
    /\ p.item >= 0
    /\ p.compositor = VECTOR
    /\ p.layout_of # NoSize

\* The worker is about to render an item with the layout planned for it.
PlannedForCurrent ==
    /\ pc = "render"
    /\ Adaptive
    /\ feedback_items[index + 1].image[2] > 0
    /\ adaptive_layout = PlanLayout(feedback_items[index + 1], pdf_quality)
    /\ page_size = <<adaptive_layout.page_width, adaptive_layout.page_height>>

CurrentItem == feedback_items[index + 1]

\* C1: under the adaptive policy the image rectangle of every page lies
\* inside the page inset by margin_points on all four sides, also after the
\* render-time adjustment of image_y.
C1_ImageInsideMargins ==
    \A p \in AllPages :
        PlacedByLayout(p) /\ ItemOf(p).image[1] > 0 /\ ItemOf(p).image[2] > 0 =>
            /\ p.margin <= p.image_rect[1]
            /\ p.image_rect[1] + p.image_rect[3] <= p.page_size[1] - p.margin
            /\ p.margin <= p.image_rect[2]
            /\ p.image_rect[2] + p.image_rect[4] <= p.page_size[2] - p.margin

\* C2: on every adaptive page that shows the image and the feedback text,
\* the text box lies below the image and at least max(2 x text_gap, 30pt)
\* away from its bottom edge.
C2_TextBelowImage ==
    \A p \in AllPages :
        /\ Adaptive
        /\ p.item >= 0
        /\ p.text_drawn
        /\ p.compositor # NOTHING
        => /\ p.text_bottom <= p.text_top
           /\ p.text_top + Max(2 * TextGap(ItemOf(p), Orientation(p.layout_of[1], p.layout_of[2])), Pt(30))
                  <= p.image_rect[2]

\* C3: a layout planned for a long-strip image has an effective DPI of at
\* least 400, a page width of at least 0.6 x 595pt and a page height of at
\* most 120 x 72pt, with or without feedback text.
C3_LongStripBounds ==
    PlannedForCurrent /\ CurrentItem.image[1] * 100 < 65 * CurrentItem.image[2] =>
        /\ adaptive_layout.effective_dpi >= 400
        /\ page_size[1] * 10 >= 6 * Pt(595)
        /\ page_size[2] <= Pt(120 * 72)

\* A long-strip image taller than the ceiling, with text, has been planned.
C3_Witness ==
    /\ PlannedForCurrent
    /\ CurrentItem.image = <<2500, 50000>>
    /\ page_size[2] = Pt(120 * 72)

\* C4 as stated: the effective DPI is max(300, configured DPI) and the
\* stored image rectangle has the DPI size for every image class.
C4_Original ==
    PlannedForCurrent =>
        LET l == adaptive_layout
            w == CurrentItem.image[1]
            h == CurrentItem.image[2]
        IN  /\ l.effective_dpi = Max(300, pdf_quality)
            /\ l.image_width_pt = (w * 72 * 100) \div l.effective_dpi
            /\ l.image_height_pt = (h * 72 * 100) \div l.effective_dpi

\* C4, amended: the effective DPI is max(300, configured DPI), raised to at
\* least 400 for a long-strip image.  A long-strip image keeps its DPI size
\* and its page is image + 2 x margin (+ gap + text block), unless the page
\* is narrower than the minimum width, and then page and image are enlarged
\* by min_width / page_width.  A landscape or portrait image is the DPI size
\* multiplied by scale_factor so that it fits the forced A4-width page.
C4_AdaptiveImageSize ==
    PlannedForCurrent =>
        LET l == adaptive_layout
            w == CurrentItem.image[1]
            h == CurrentItem.image[2]
            strip == w * 100 < 65 * h
            dpi == IF strip THEN Max(400, Max(300, pdf_quality))
                   ELSE Max(300, pdf_quality)
            dw == (w * 72 * 100) \div dpi
            dh == (h * 72 * 100) \div dpi
            m == (5 * 72 * 1000) \div 254
            natural_w == dw + 2 * m
            natural_h == dh + 2 * m + l.text_gap + TextAreaHeight(CurrentItem)
            min_w == (Pt(595) * 6) \div 10
        IN  /\ l.effective_dpi = dpi
            /\ strip /\ natural_w >= min_w =>
                  /\ l.image_width_pt = dw
                  /\ l.image_height_pt = dh
                  /\ l.page_width = Min(natural_w, Pt(42 * 72))
                  /\ l.page_height = Min(natural_h, Pt(120 * 72))
            /\ strip /\ natural_w < min_w =>
                  /\ l.page_width = min_w
                  /\ l.image_width_pt = MulScale(dw, Ratio(min_w, natural_w))
                  /\ l.image_height_pt = MulScale(dh, Ratio(min_w, natural_w))
            /\ ~strip =>
                  /\ l.page_width = (IF w * 10 > 13 * h THEN Pt(842) ELSE Pt(595))
                  /\ l.page_height >= (IF w * 10 > 13 * h THEN Pt(595) ELSE Pt(842))
                  /\ l.image_width_pt = MulScale(dw, l.scale_factor)
                  /\ l.image_height_pt = MulScale(dh, l.scale_factor)
                  /\ l.image_width_pt <= l.page_width - 2 * m
                  /\ l.image_height_pt <= l.available_image_height

\* A portrait image was planned at a configured DPI below 300 and enlarged
\* to fit the A4 page.
C4_Witness ==
    /\ PlannedForCurrent
    /\ pdf_quality = 150
    /\ adaptive_layout.orientation = PORTRAIT
    /\ adaptive_layout.scale_factor > 1000

\* C5 as stated: the text block is never made lower than the height
\* computed for the wrapped text, and the image area is at least 35% of the
\* page height.
C5_Original ==
    PlannedForCurrent /\ adaptive_layout.orientation # WEBTOON =>
        /\ adaptive_layout.text_area_height >= TextAreaHeight(CurrentItem)
        /\ adaptive_layout.available_image_height
               >= (adaptive_layout.page_height * 35) \div 100

\* C5, amended: for a landscape or portrait image, when the text block, the
\* safe gap and the margins would leave the image less than 35% of the page
\* height, the image area becomes 35% of the page height and
\* text_area_height is reduced to what is left; the page height is not
\* increased.  After planning the image area is at least 35% of the page
\* height.
C5_ImageShare ==
    PlannedForCurrent /\ adaptive_layout.orientation # WEBTOON =>
        LET l == adaptive_layout
            t == TextAreaHeight(CurrentItem)
            m == (5 * 72 * 1000) \div 254
            safe == Max(2 * l.text_gap, Pt(30))
            dh == (CurrentItem.image[2] * 72 * 100) \div l.effective_dpi
            a4h == IF l.orientation = LANDSCAPE THEN Pt(595) ELSE Pt(842)
            share == (l.page_height * 35) \div 100
        IN  /\ l.page_height = Min(Max(dh + 2 * m + l.text_gap + t, a4h), Pt(60 * 72))
            /\ l.available_image_height >= share
            /\ l.text_area_height <= t
            /\ l.text_area_height < t =>
                  /\ l.available_image_height = share
                  /\ l.text_area_height = l.page_height - share - safe - 2 * m
            /\ l.text_area_height = t =>
                  l.available_image_height + t + safe + 2 * m = l.page_height
                  \/ l.available_image_height = share

\* The text block of a small image with long text was reduced.
C5_Witness ==
    /\ PlannedForCurrent
    /\ adaptive_layout.orientation = PORTRAIT
    /\ adaptive_layout.text_area_height < TextAreaHeight(CurrentItem)

Degenerate(item) == item.image[1] = 0 \/ item.image[2] = 0

\* C6: for an item whose image has width 0 or height 0 no content is drawn
\* from any layout, and the document that is saved has no page for it.
C6_DegenerateSkipped ==
    \A p \in AllPages :
        Adaptive /\ p.item >= 0 /\ Degenerate(ItemOf(p)) =>
            /\ p.compositor = NOTHING
            /\ p.layout_of = NoSize
            /\ ~saved

\* C7: the adaptive page of an item is positioned with a layout computed
\* for that item, or with none when its planning failed.
C7_PageIndependence ==
    \A p \in AllPages :
        Adaptive /\ p.item >= 0 /\ p.layout_of # NoSize =>
            p.layout_of = ItemOf(p).image

Offset == IF skip_title_page THEN 0 ELSE 1

C9_Cancellation ==
    /\ [](result = "cancelled" =>
            /\ canceled
            /\ ~saved
            /\ \A p \in AllPages : p.item < index
            /\ pc = "done" => reported = "cancelled" /\ ~file_exists)
    /\ [][result = "cancelled" =>
            /\ result' = "cancelled"
            /\ pages' = pages
            /\ cur' = cur
            /\ saved' = saved]_vars

\* An export cancelled between two items has completed.
C9_Witness ==
    /\ pc = "done"
    /\ result = "cancelled"
    /\ index >= 1
    /\ index < Len(feedback_items)

\* C10 as stated: a page is emitted as vectors only when its item has no
\* image annotation, under both policies and for every orientation.
C10_Original ==
    \A p \in AllPages :
        p.item >= 0 /\ p.compositor = VECTOR =>
            Len(ImageAnnotations(ItemOf(p))) = 0

\* C10, amended: a page is emitted as vectors only when its item has no
\* image annotation, under the fixed policy and, under the adaptive policy,
\* when the layout in use is landscape or portrait; with a long-strip layout
\* the adaptive renderer always emits vectors, image annotations or not.
C10_VectorOnlyWithoutImages ==
    \A p \in AllPages :
        p.item >= 0 /\ p.compositor = VECTOR =>
            \/ Len(ImageAnnotations(ItemOf(p))) = 0
            \/ /\ Adaptive
               /\ p.layout_of # NoSize
               /\ Orientation(p.layout_of[1], p.layout_of[2]) = WEBTOON

\* An item with an image annotation was flattened under the fixed policy.
C10_Witness ==
    /\ ~Adaptive
    /\ \E p \in AllPages :
          /\ p.item >= 0
          /\ Len(ImageAnnotations(ItemOf(p))) > 0
          /\ p.compositor = FLATTEN

(***************************************************************************)
(* The annotation pass of the export renderers, one call at a time: the    *)
(* two flatten functions and the vector pass.  What a pass puts on its     *)
(* surface is recorded in paint order: which annotation, and whether its   *)
(* shape, its raster image or an "Image Error" box was painted.            *)
(***************************************************************************)
\* Largest number of annotations of the item of a call.
MaxAnnotations == 3

\* An image annotation; image_data_ok tells whether image_data decodes.
ImageAnn(o, ok) == [type |-> "image", opacity |-> o, image_data_ok |-> ok]

RenderAnnPool ==
    { Ann("arrow", 100), Ann("text", 100), ImageAnn(100, TRUE),
      ImageAnn(50, TRUE), ImageAnn(50, FALSE) }

SeqsUpTo(S, n) == UNION {[1..k -> S] : k \in 0..n}

FlattenFns ==
    { "create_high_quality_combined_image",
      "create_high_quality_combined_image_with_transparency" }

RenderFns == FlattenFns \cup {"draw_vector_annotations_on_pdf"}

Painted(k, what) == [ann |-> k, what |-> what]

\* _draw_high_quality_annotation: every shape is drawn; the image branch
\* returns at once.
_draw_high_quality_annotation(k, a) ==
    IF a.type = "image" THEN <<>> ELSE <<Painted(k, "shape")>>

\* _draw_transparent_image_annotation: a decode error is logged, nothing is
\* pasted.
_draw_transparent_image_annotation(k, a) ==
    IF a.image_data_ok THEN <<Painted(k, "image")>> ELSE <<>>

\* One iteration of the loop of draw_vector_annotations_on_pdf.
DrawVectorAnnotation(k, a) ==
    IF a.type = "image"
    THEN (IF a.image_data_ok THEN <<Painted(k, "image")>> ELSE <<>>)
    ELSE <<Painted(k, "shape")>>

\* The branch a pass takes: RGBA when an image annotation has an opacity
\* below 100, else RGB; the vector pass draws on the PDF canvas.
RenderBranch(fn, annotations) ==
    IF fn = "draw_vector_annotations_on_pdf" THEN "pdf"
    ELSE IF \E k \in 1..Len(annotations) :
               annotations[k].type = "image" /\ annotations[k].opacity < 100
         THEN "RGBA" ELSE "RGB"

\* One iteration of the loop of the branch.
DrawAnnotation(branch, k, a) ==
    IF branch = "pdf" THEN DrawVectorAnnotation(k, a)
    ELSE IF branch = "RGBA" /\ a.type = "image"
    THEN _draw_transparent_image_annotation(k, a)
    ELSE _draw_high_quality_annotation(k, a)

RenderInit ==
    /\ AppInit
    /\ EditIdle
    /\ call \in {[fn |-> f, annotations |-> anns] :
                    f \in RenderFns, anns \in SeqsUpTo(RenderAnnPool, MaxAnnotations)}
    /\ frame = NoFrame
    /\ ret = NoRet

\* The copy of the base image and the choice of the branch.
render_begin ==
    /\ call.fn \in RenderFns
    /\ frame = NoFrame
    /\ frame' = [at |-> "loop", branch |-> RenderBranch(call.fn, call.annotations),
                 i |-> 1, drawn |-> <<>>]
    /\ UNCHANGED <<call, ret>>
    /\ UNCHANGED app_vars
    /\ UNCHANGED edit_vars

render_annotation ==
    /\ frame.at = "loop"
    /\ frame.i <= Len(call.annotations)
    /\ frame' = [frame EXCEPT
                    !.i = frame.i + 1,
                    !.drawn = frame.drawn \o
                        DrawAnnotation(frame.branch, frame.i,
                                       call.annotations[frame.i])]
    /\ UNCHANGED <<call, ret>>
    /\ UNCHANGED app_vars
    /\ UNCHANGED edit_vars

render_return ==
    /\ frame.at = "loop"
    /\ frame.i > Len(call.annotations)
    /\ ret' = [done |-> TRUE, mode |-> frame.branch, drawn |-> frame.drawn]
    /\ frame' = [at |-> "returned"]
    /\ UNCHANGED call
    /\ UNCHANGED app_vars
    /\ UNCHANGED edit_vars

RenderNext ==
    \/ render_begin
    \/ render_annotation
    \/ render_return

SpecRender == RenderInit /\ [][RenderNext]_vars

\* C11: a flatten function paints every annotation of the item exactly
\* once and in list order, whatever its type and in both the RGB and the
\* RGBA branch (stated for items whose image annotations all decode).
C11_FlattenDrawsAllInOrder ==
    /\ ret.done
    /\ call.fn \in FlattenFns
    /\ \A k \in 1..Len(call.annotations) :
          call.annotations[k].type = "image" => call.annotations[k].image_data_ok
    => /\ Len(ret.drawn) = Len(call.annotations)
       /\ \A k \in 1..Len(ret.drawn) : ret.drawn[k].ann = k

\* C14: when the raster data of an image annotation cannot be decoded, the
\* pass paints an "Image Error" box for it, in its place in the paint
\* order, and still paints the annotations after it.
C14_DecodeFailurePlaceholder ==
    ret.done =>
        \A k \in 1..Len(call.annotations) :
            LET a == call.annotations[k]
            IN  a.type = "image" /\ ~a.image_data_ok =>
                    \E j \in 1..Len(ret.drawn) :
                        /\ ret.drawn[j] = Painted(k, "placeholder")
                        /\ \A n \in (k + 1)..Len(call.annotations) :
                              call.annotations[n].type # "image" =>
                                  \E m \in (j + 1)..Len(ret.drawn) :
                                      ret.drawn[m].ann = n

\* C12: every page drawn for an item whose feedback text is not empty
\* carries the feedback-text block, whichever page path was taken and also
\* when the fallback page was substituted.
C12_FeedbackTextRendered ==
    \A p \in AllPages :
        /\ p.item >= 0
        /\ p.item < index
        /\ HasText(ItemOf(p))
        /\ p.compositor # NOTHING
        => p.text_drawn

(***************************************************************************)
(* One pixel of _draw_transparent_image_annotation.  Colours are grey      *)
(* levels (the three colour bands are treated alike); a pixel is a level   *)
(* and an alpha, both 0..255.  Image.paste with a mask blends every band,  *)
(* alpha included: band = DIV255(dst * (255 - mask) + src * mask).         *)
(***************************************************************************)
ChannelMax == 255

\* PIL's rounding division by 255.
Div255(a) == LET tmp == a + 128 IN ((tmp \div 256) + tmp) \div 256

Blend8(mask, in1, in2) == Div255(in1 * (ChannelMax - mask) + in2 * mask)

\* dst.paste(src, box, src): src is its own mask.
Paste(dst, src) ==
    [level |-> Blend8(src.alpha, dst.level, src.level),
     alpha |-> Blend8(src.alpha, dst.alpha, src.alpha)]

\* The pixel of base_image under the inside of the annotation image after
\* _draw_transparent_image_annotation: the alpha is multiplied by the
\* opacity, an outlined image is first pasted onto a transparent image
\* with room for the outline, and the result is pasted onto the base.
TransparentImagePixel(base, ann) ==
    LET new_alpha == IF ann.opacity < 100
                     THEN (ann.alpha * ann.opacity) \div 100
                     ELSE ann.alpha
        img == [level |-> ann.level, alpha |-> new_alpha]
        outlined_image == IF ann.outline
                          THEN Paste([level |-> 0, alpha |-> 0], img)
                          ELSE img
    IN  Paste(base, outlined_image)

BlendInit ==
    /\ AppInit
    /\ EditIdle
    /\ call \in {[fn |-> "_draw_transparent_image_annotation",
                  base |-> [level |-> b, alpha |-> ChannelMax],
                  annotation |-> [level |-> f, alpha |-> ChannelMax,
                                  opacity |-> 50, outline |-> o,
                                  outline_width |-> 3]] :
                    b \in 0..ChannelMax, f \in 0..ChannelMax, o \in BOOLEAN}
    /\ frame = NoFrame
    /\ ret = NoRet

blend_apply ==
    /\ call.fn = "_draw_transparent_image_annotation"
    /\ ~ret.done
    /\ ret' = [done |-> TRUE,
               pixel |-> TransparentImagePixel(call.base, call.annotation)]
    /\ UNCHANGED <<call, frame>>
    /\ UNCHANGED app_vars
    /\ UNCHANGED edit_vars

BlendNext == blend_apply

SpecBlend == BlendInit /\ [][BlendNext]_vars

\* C13: an opaque annotation pixel of an image annotation with opacity 50,
\* outline enabled and outline_width 3, composited onto an opaque base
\* pixel, gives a pixel that differs from the base colour and from the
\* annotation colour; stated for colours at least 64 levels apart, far
\* more than the rounding of a blend can hide.
C13_TrueBlending ==
    /\ ret.done
    /\ call.annotation.outline
    /\ \/ call.base.level + 64 <= call.annotation.level
       \/ call.annotation.level + 64 <= call.base.level
    => /\ ret.pixel.level # call.base.level
       /\ ret.pixel.level # call.annotation.level

(***************************************************************************)
(* The arrow of the two export renderers.  An arrow is given by its tail   *)
(* (start), its head (end) and a stroke width.  The raster renderer works  *)
(* in image pixels with an integer annotation width; the vector renderer   *)
(* works in points, on the scaled end points, with line_width given in     *)
(* tenths of a point.  Sizes are kept as squares of tenths, so that they   *)
(* compare exactly with 0.3 x the length: (10 x 0.3 x L)^2 = 9 x L^2.      *)
(***************************************************************************)
ArrowDeltas == {-120, -2, -1, 0, 1, 2, 5, 11, 16, 30, 40, 70, 120, 300}

\* Annotation widths of the raster renderer.
ArrowWidths == {1, 2, 5, 8, 12}

\* line_width of the vector renderer, in tenths of a point; at least 1pt.
LineWidths == {10, 14, 35, 80}

Abs(x) == IF x < 0 THEN -x ELSE x

Sq(x) == x * x

\* arrow_length squared.
ArrowLengthSq(a) == Sq(a.end[1] - a.start[1]) + Sq(a.end[2] - a.start[2])

\* The test that selects the triangle; a plain segment is drawn otherwise.
HasTriangle(a) ==
    Abs(a.end[1] - a.start[1]) > 1 \/ Abs(a.end[2] - a.start[2]) > 1

\* arrow_size = max(min(base_arrow_size, arrow_length * 0.3), minimum), as
\* the square of its value in tenths.
ArrowSizeSq(base10, min10, a) ==
    Max(Min(Sq(base10), 9 * ArrowLengthSq(a)), Sq(min10))

\* What a renderer draws for an arrow: the triangle or a plain segment, the
\* head size, the half-angle (sharp: pi/8, else pi/6) and the squared
\* length of the arrow.
Arrow(a, size_sq, sharp10) ==
    [triangle |-> HasTriangle(a),
     size_sq |-> IF HasTriangle(a) THEN size_sq ELSE 0,
     sharp |-> HasTriangle(a) /\ size_sq < Sq(sharp10),
     length_sq |-> ArrowLengthSq(a)]

\* width = max(2, int(base_width * 1.3)).
RasterStrokeWidth(base_width) == Max(2, (13 * base_width) \div 10)

\* The arrow branch of _draw_high_quality_annotation.
RasterArrow(a) ==
    Arrow(a, ArrowSizeSq(Max(200, 30 * RasterStrokeWidth(a.width)), 150, a), 300)

\* Variant: the vector renderer with the constants of the raster renderer.
VectorArrow_RasterConstants(a) ==
    Arrow(a, ArrowSizeSq(Max(200, 3 * a.width), 150, a), 300)

\* The arrow branch of draw_vector_annotations_on_pdf; a.width is
\* line_width in tenths of a point.
VectorArrow(a) ==
    Arrow(a, ArrowSizeSq(Max(100, 3 * a.width), 80, a), 200)

ArrowInit ==
    /\ AppInit
    /\ EditIdle
    /\ call \in {[fn |-> "_draw_high_quality_annotation", start |-> <<0, 0>>,
                  end |-> <<dx, dy>>, width |-> w] :
                    dx \in ArrowDeltas, dy \in ArrowDeltas, w \in ArrowWidths}
               \cup
               {[fn |-> "draw_vector_annotations_on_pdf", start |-> <<0, 0>>,
                 end |-> <<dx, dy>>, width |-> w] :
                    dx \in ArrowDeltas, dy \in ArrowDeltas, w \in LineWidths}
    /\ frame = NoFrame
    /\ ret = NoRet

raster_arrow ==
    /\ call.fn = "_draw_high_quality_annotation"
    /\ ~ret.done
    /\ ret' = [done |-> TRUE, arrow |-> RasterArrow(call)]
    /\ UNCHANGED <<call, frame>>
    /\ UNCHANGED app_vars
    /\ UNCHANGED edit_vars

vector_arrow ==
    /\ call.fn = "draw_vector_annotations_on_pdf"
    /\ ~ret.done
    /\ ret' = [done |-> TRUE, arrow |-> VectorArrow(call)]
    /\ UNCHANGED <<call, frame>>
    /\ UNCHANGED app_vars
    /\ UNCHANGED edit_vars

ArrowNext ==
    \/ raster_arrow
    \/ vector_arrow

SpecArrow == ArrowInit /\ [][ArrowNext]_vars

\* C15: every arrow longer than 1 gets a triangle, and its shaft end, 0.7 x
\* size back from the head, lies strictly between tail and head:
\* (0.7 x size)^2 < length^2.
C15_ShaftEndBetween ==
    ret.done /\ ret.arrow.length_sq > 1 =>
        /\ ret.arrow.triangle
        /\ ret.arrow.size_sq > 0
        /\ 49 * ret.arrow.size_sq < 10000 * ret.arrow.length_sq

\* C20 as stated: both export renderers use head size
\* max(15, min(max(20, 3w), 0.3L)) and the half-angle pi/8 below size 30,
\* for the stroke width w the renderer draws with.
C20_Original ==
    ret.done /\ ret.arrow.triangle =>
        LET w10 == IF call.fn = "_draw_high_quality_annotation"
                   THEN 10 * Max(2, (13 * call.width) \div 10)
                   ELSE call.width
            size_sq == Max(Min(Sq(Max(200, 3 * w10)), 9 * ret.arrow.length_sq),
                           Sq(150))
        IN  /\ ret.arrow.size_sq = size_sq
            /\ ret.arrow.sharp <=> size_sq < Sq(300)

\* C20, amended: the raster renderer uses max(15, min(max(20, 3w), 0.3L))
\* in pixels, w = max(2, int(1.3 x annotation width)), half-angle pi/8
\* below 30; the vector renderer uses max(8, min(max(10, 3w), 0.3L)) in
\* points, w = line_width, half-angle pi/8 below 20.
C20_ArrowHeadSize ==
    ret.done /\ ret.arrow.triangle =>
        LET raster == call.fn = "_draw_high_quality_annotation"
            w10 == IF raster THEN 10 * Max(2, (13 * call.width) \div 10)
                   ELSE call.width
            floor10 == IF raster THEN 200 ELSE 100
            least10 == IF raster THEN 150 ELSE 80
            sharp10 == IF raster THEN 300 ELSE 200
            size_sq == Max(Min(Sq(Max(floor10, 3 * w10)), 9 * ret.arrow.length_sq),
                           Sq(least10))
        IN  /\ ret.arrow.size_sq = size_sq
            /\ ret.arrow.sharp <=> size_sq < Sq(sharp10)

\* The vector renderer drew a head that the cap of 0.3 x length limits,
\* between its minimum and its floor.
C20_Witness ==
    /\ ret.done
    /\ call.fn = "draw_vector_annotations_on_pdf"
    /\ ret.arrow.triangle
    /\ ret.arrow.size_sq = 9 * ret.arrow.length_sq
    /\ ret.arrow.size_sq > Sq(80)
    /\ ret.arrow.size_sq < Sq(100)

(***************************************************************************)
(* smooth_pen_path.  Points are pairs of coordinates in thousandths of a   *)
(* pixel, weights and mix ratios are in thousandths; every product is      *)
(* rounded down where the program keeps a float.                           *)
(***************************************************************************)
\* Largest number of points of a pen path.
MaxPathLen == 6

\* Canvas positions a path is drawn through, in pixels.
PenPoints == {<<0, 0>>, <<3, 4>>, <<10, 1>>}

Strengths == 0..10

RECURSIVE ISqrtBetween(_, _, _)
ISqrtBetween(n, lo, hi) ==
    IF lo >= hi THEN lo
    ELSE LET mid == (lo + hi + 1) \div 2
         IN  IF mid * mid <= n THEN ISqrtBetween(n, mid, hi)
             ELSE ISqrtBetween(n, lo, mid - 1)

\* The square root, rounded down.
ISqrt(n) == ISqrtBetween(n, 0, 46340)

Dist(p, q) == ISqrt(Sq(p[1] - q[1]) + Sq(p[2] - q[2]))

\* adaptive_weight of step 1 for the point between prev and next.
AdaptiveWeight(strength, prev, curr, next) ==
    LET base_weight == Min((strength * 1000) \div 12, 800)
        d == Dist(curr, prev) + Dist(next, curr)
    IN  IF strength >= 8
        THEN Min(base_weight + (base_weight * 2000) \div Max(d, 500), 800)
        ELSE IF strength >= 5
        THEN Min(base_weight + (base_weight * 1500) \div Max(d, 1000), 600)
        ELSE Min(base_weight + (base_weight * 1000) \div Max(d, 1500), 400)

\* One pass of step 1: the weighted average of every inner point with its
\* neighbours; the first and the last point are copied.
WeightedPass(pts, strength) ==
    [k \in 1..Len(pts) |->
        IF k = 1 \/ k = Len(pts) THEN pts[k]
        ELSE LET w == AdaptiveWeight(strength, pts[k - 1], pts[k], pts[k + 1])
                 mixed(c) == (pts[k - 1][c] * w + pts[k][c] * (1000 - 2 * w)
                              + pts[k + 1][c] * w) \div 1000
             IN  <<mixed(1), mixed(2)>>]

\* Step 1: one pass, two from strength 3 on.
WeightedStep(pts, strength) ==
    IF Min(2, strength \div 3 + 1) = 2
    THEN WeightedPass(WeightedPass(pts, strength), strength)
    ELSE WeightedPass(pts, strength)

MixRatio(strength) ==
    IF strength >= 9 THEN Min(((strength - 6) * 1000) \div 4, 500)
    ELSE IF strength >= 7 THEN Min(((strength - 6) * 1000) \div 4, 350)
    ELSE Min(((strength - 6) * 1000) \div 4, 200)

\* Variant: step 2 forgets to append the last point.
BezierStep_DropsLast(pts, strength) ==
    IF strength < 6 THEN pts
    ELSE <<pts[1]>> \o
         [k \in 1..(Len(pts) - 3) |->
            LET bezier(c) == (pts[k][c] + 3 * pts[k + 1][c] + 3 * pts[k + 2][c]
                              + pts[k + 3][c]) \div 8
                final(c) == (pts[k + 1][c] * (1000 - MixRatio(strength))
                             + bezier(c) * MixRatio(strength)) \div 1000
            IN  <<final(1), final(2)>>]

\* Step 2, from strength 6 on: every point from the second to the last but
\* two is mixed with the midpoint of the Bezier curve through it and its
\* neighbours; the last but one is left out, the last one is appended.
BezierStep(pts, strength) ==
    IF strength < 6 THEN pts
    ELSE <<pts[1]>> \o
         [k \in 1..(Len(pts) - 3) |->
            LET bezier(c) == (pts[k][c] + 3 * pts[k + 1][c] + 3 * pts[k + 2][c]
                              + pts[k + 3][c]) \div 8
                final(c) == (pts[k + 1][c] * (1000 - MixRatio(strength))
                             + bezier(c) * MixRatio(strength)) \div 1000
            IN  <<final(1), final(2)>>] \o
         (IF Len(pts) > 1 THEN <<pts[Len(pts)]>> ELSE <<>>)

\* The weights of step 3 for n points around the point at place centre.
UltraWeights(n) ==
    IF n = 5 THEN <<100, 200, 400, 200, 100>>
    ELSE IF n = 3 THEN <<250, 500, 250>>
    ELSE [j \in 1..n |-> IF j = n \div 2 + 1 THEN 500 ELSE 500 \div (n - 1)]

\* Step 3, from strength 9 on: the weighted average over the points within
\* radius 1 (2 at strength 10).
UltraStep(pts, strength) ==
    IF strength < 9 THEN pts
    ELSE LET radius == IF strength = 10 THEN 2 ELSE 1
             n == Len(pts)
         IN  <<pts[1]>> \o
             [k \in 1..(n - 2) |->
                LET i == k + 1
                    lo == Max(1, i - radius)
                    hi == Min(n, i + radius)
                    cnt == hi - lo + 1
                    w == UltraWeights(cnt)
                    RECURSIVE Sum(_, _)
                    Sum(c, j) == IF j > cnt THEN 0
                                 ELSE pts[lo + j - 1][c] * w[j] + Sum(c, j + 1)
                IN  IF cnt >= 3
                    THEN <<Sum(1, 1) \div 1000, Sum(2, 1) \div 1000>>
                    ELSE pts[i]] \o
             (IF n > 1 THEN <<pts[n]>> ELSE <<>>)

PenPaths ==
    {[k \in 1..Len(p) |-> <<p[k][1] * 1000, p[k][2] * 1000>>] :
        p \in SeqsUpTo(PenPoints, MaxPathLen) \ {<<>>}}

PenInit ==
    /\ AppInit
    /\ EditIdle
    /\ call \in {[fn |-> "smooth_pen_path", path_points |-> p,
                  pen_smoothing_enabled |-> e, strength |-> s] :
                    p \in PenPaths, e \in BOOLEAN, s \in Strengths}
    /\ frame = NoFrame
    /\ ret = NoRet

\* The early return: smoothing is disabled or the path has fewer than 3
\* points.
smooth_pen_path_unchanged ==
    /\ call.fn = "smooth_pen_path"
    /\ frame = NoFrame
    /\ ~call.pen_smoothing_enabled \/ Len(call.path_points) < 3
    /\ ret' = [done |-> TRUE, path |-> call.path_points]
    /\ frame' = [at |-> "returned"]
    /\ UNCHANGED call
    /\ UNCHANGED app_vars
    /\ UNCHANGED edit_vars

smooth_weighted ==
    /\ call.fn = "smooth_pen_path"
    /\ frame = NoFrame
    /\ call.pen_smoothing_enabled /\ Len(call.path_points) >= 3
    /\ frame' = [at |-> "bezier",
                 current_points |-> WeightedStep(call.path_points, call.strength)]
    /\ UNCHANGED <<call, ret>>
    /\ UNCHANGED app_vars
    /\ UNCHANGED edit_vars

smooth_bezier ==
    /\ frame.at = "bezier"
    /\ frame' = [at |-> "ultra",
                 current_points |-> BezierStep(frame.current_points, call.strength)]
    /\ UNCHANGED <<call, ret>>
    /\ UNCHANGED app_vars
    /\ UNCHANGED edit_vars

smooth_ultra ==
    /\ frame.at = "ultra"
    /\ ret' = [done |-> TRUE,
               path |-> UltraStep(frame.current_points, call.strength)]
    /\ frame' = [at |-> "returned"]
    /\ UNCHANGED call
    /\ UNCHANGED app_vars
    /\ UNCHANGED edit_vars

PenNext ==
    \/ smooth_pen_path_unchanged
    \/ smooth_weighted
    \/ smooth_bezier
    \/ smooth_ultra

SpecPen == PenInit /\ [][PenNext]_vars

\* C16: the path smooth_pen_path returns starts at the first point of the
\* input and ends at its last point, for every strength 0..10; with
\* strength 0, with smoothing disabled or with fewer than 3 points it is
\* the input, point for point.
C16_SmoothingKeepsEndpoints ==
    ret.done /\ call.fn = "smooth_pen_path" =>
        /\ Len(ret.path) >= 1
        /\ ret.path[1] = call.path_points[1]
        /\ ret.path[Len(ret.path)] = call.path_points[Len(call.path_points)]
        /\ \/ call.strength = 0
           \/ ~call.pen_smoothing_enabled
           \/ Len(call.path_points) < 3
           => ret.path = call.path_points

\* A path of at least 5 points went through all three steps at strength 10
\* and came back changed.
C16_Witness ==
    /\ ret.done
    /\ call.fn = "smooth_pen_path"
    /\ call.pen_smoothing_enabled
    /\ call.strength = 10
    /\ Len(call.path_points) >= 5
    /\ Len(ret.path) < Len(call.path_points)
    /\ \E k \in 2..(Len(ret.path) - 1) : ret.path[k] # call.path_points[k]

(***************************************************************************)
(* _wrap_text_for_pdf.  A text without newlines is given by the words      *)
(* paragraph.split() yields; a word and a line are sequences of            *)
(* characters.  canvas.stringWidth is modelled by a measure of font_size   *)
(* points for every character, in hundredths of a point, or by a call      *)
(* that raises (the font is not available).                                *)
(***************************************************************************)
\* Largest number of words of a text.
MaxWords == 3

\* A word of 30 characters.
LongWord == [k \in 1..30 |-> "x"]

WordPool == {<<"a">>, <<"b", "c">>, <<"d", "e", "f", "g">>, LongWord}

\* max_width choices, in points.
WrapWidths == {25, 50, 200, 400}

StringWidth(line, font_size) == Pt(Len(line) * font_size)

RECURSIVE WrapWords(_, _, _, _, _, _, _)
\* The loop over the words of a paragraph, from word i on, and the flush of
\* the last line.
WrapWords(words, i, current_line, lines, max_width, font_size, raises) ==
    IF i > Len(words)
    THEN (IF current_line # <<>> THEN Append(lines, current_line) ELSE lines)
    ELSE LET word == words[i]
             test_line == IF current_line # <<>>
                          THEN current_line \o <<" ">> \o word ELSE word
             flushed == IF current_line # <<>>
                        THEN Append(lines, current_line) ELSE lines
         IN  IF raises
             THEN (IF Len(test_line) <= 50
                   THEN WrapWords(words, i + 1, test_line, lines, max_width,
                                  font_size, raises)
                   ELSE WrapWords(words, i + 1, word, flushed, max_width,
                                  font_size, raises))
             ELSE IF StringWidth(test_line, font_size) <= max_width
             THEN WrapWords(words, i + 1, test_line, lines, max_width,
                            font_size, raises)
             ELSE IF StringWidth(word, font_size) > max_width /\ Len(word) > 1
             THEN WrapWords(words, i + 1, <<word[Len(word)]>>,
                            Append(flushed,
                                   SubSeq(word, 1, Len(word) - 1) \o <<"-">>),
                            max_width, font_size, raises)
             ELSE WrapWords(words, i + 1, word, flushed, max_width, font_size,
                            raises)

\* _wrap_text_for_pdf for a text of one paragraph; an empty paragraph gives
\* one empty line.
_wrap_text_for_pdf(words, max_width, font_size, raises) ==
    IF words = <<>> THEN <<<<>>>>
    ELSE WrapWords(words, 1, <<>>, <<>>, max_width, font_size, raises)

RECURSIVE JoinLines(_)
\* " ".join(lines)
JoinLines(lines) ==
    IF lines = <<>> THEN <<>>
    ELSE IF Len(lines) = 1 THEN lines[1]
    ELSE lines[1] \o <<" ">> \o JoinLines(Tail(lines))

RECURSIVE SplitWords(_, _, _)
\* text.split(): the words of a sequence of characters, from place i on,
\* word being the word read so far.
SplitWords(chars, i, word) ==
    IF i > Len(chars)
    THEN (IF word # <<>> THEN <<word>> ELSE <<>>)
    ELSE IF chars[i] = " "
    THEN (IF word # <<>> THEN <<word>> ELSE <<>>) \o SplitWords(chars, i + 1, <<>>)
    ELSE SplitWords(chars, i + 1, Append(word, chars[i]))

WrapInit ==
    /\ AppInit
    /\ EditIdle
    /\ call \in {[fn |-> "_wrap_text_for_pdf", words |-> ws, max_width |-> Pt(mw),
                  font_size |-> fs, raises |-> r] :
                    ws \in SeqsUpTo(WordPool, MaxWords), mw \in WrapWidths,
                    fs \in {7, 11}, r \in BOOLEAN}
    /\ frame = NoFrame
    /\ ret = NoRet

wrap_apply ==
    /\ call.fn = "_wrap_text_for_pdf"
    /\ ~ret.done
    /\ ret' = [done |-> TRUE,
               lines |-> _wrap_text_for_pdf(call.words, call.max_width,
                                            call.font_size, call.raises)]
    /\ UNCHANGED <<call, frame>>
    /\ UNCHANGED app_vars
    /\ UNCHANGED edit_vars

WrapNext == wrap_apply

SpecWrap == WrapInit /\ [][WrapNext]_vars

\* C17: for a text of words separated by single spaces, the lines
\* _wrap_text_for_pdf returns, joined with single spaces, give back the
\* words of the text, in order and unchanged.
C17_WrapRoundTrip ==
    ret.done /\ call.fn = "_wrap_text_for_pdf" =>
        SplitWords(JoinLines(ret.lines), 1, <<>>) = call.words

(***************************************************************************)
(* The feedback-text block of a page: _add_adaptive_feedback_text_natural  *)
(* (adaptive export) and _add_feedback_text_to_pdf (fixed A4 export).      *)
(* ret records the font chosen, the number of wrapped lines, the number of *)
(* lines drawn and whether the "more" marker line was drawn.               *)
(***************************************************************************)
\* Numbers of words of the feedback texts tried.
TextSizes == {1, 4, 8, 12}

\* A feedback text of n words of nine characters.
TextOf(n) == [k \in 1..n |-> [c \in 1..9 |-> "x"]]

\* text_area_height choices, in points.
TextAreaHeights == {60, 63, 81, 100, 160}

\* initial_font_size for a text of text_length characters; base is the size
\* for a text of less than 100 characters.
InitialFontSize(text_length, base) ==
    IF text_length < 100 THEN base
    ELSE IF text_length < 300 THEN base - 1
    ELSE IF text_length < 600 THEN base - 2
    ELSE base - 3

RECURSIVE FitFont(_, _, _, _, _, _)
\* for font_size in range(font_size, stop, -1): the first size at which
\* the wrapped lines, spacing points apart plus the font size, fit into
\* available_height.
FitFont(words, max_text_width, available_height, font_size, stop, spacing) ==
    IF font_size <= stop THEN [fits |-> FALSE]
    ELSE LET text_lines == _wrap_text_for_pdf(words, max_text_width, font_size, FALSE)
             line_height == font_size + spacing
         IN  IF Pt(Len(text_lines) * line_height) <= available_height
             THEN [fits |-> TRUE, font_size |-> font_size,
                   line_height |-> line_height]
             ELSE FitFont(words, max_text_width, available_height,
                          font_size - 1, stop, spacing)

RECURSIVE AdaptiveDraw(_, _, _, _, _)
\* The drawing loop of _add_adaptive_feedback_text_natural from line i on.
AdaptiveDraw(i, n, content_y, bottom, line_height) ==
    IF i >= n THEN [drawn |-> i, marker |-> FALSE]
    ELSE IF content_y < bottom THEN [drawn |-> i, marker |-> i < n - 1]
    ELSE AdaptiveDraw(i + 1, n, content_y - Pt(line_height), bottom, line_height)

_add_adaptive_feedback_text_natural(words, text_y, text_area_height, page_width, margin, orientation) ==
    LET webtoon == orientation = "webtoon"
        text_box_margin == IF webtoon THEN Max(Pt(1), margin \div 5) ELSE margin
        max_text_width == page_width - 2 * text_box_margin
                              - (IF webtoon THEN Pt(8) ELSE Pt(20))
        title_y == text_y - Pt(25)
        available_height == text_area_height - Pt(45)
        initial_font_size == InitialFontSize(Len(JoinLines(words)), 16)
        fit == FitFont(words, max_text_width, available_height,
                       initial_font_size, 6, 4)
        found_size == IF fit.fits THEN fit.font_size ELSE initial_font_size
        forced == found_size = initial_font_size
        lines7 == _wrap_text_for_pdf(words, max_text_width, 7, FALSE)
        best_font_size == IF forced THEN 7 ELSE found_size
        best_line_height ==
            IF forced
            THEN (IF Pt(Len(lines7) * 11) > available_height THEN 9 ELSE 11)
            ELSE fit.line_height
        text_lines == _wrap_text_for_pdf(words, max_text_width, best_font_size, FALSE)
        loop == AdaptiveDraw(0, Len(text_lines), title_y - Pt(30),
                             text_y - text_area_height + Pt(2), best_line_height)
    IN  [done |-> TRUE, font_size |-> best_font_size,
         line_height |-> best_line_height, lines |-> Len(text_lines),
         drawn |-> loop.drawn, marker |-> loop.marker]

RECURSIVE FixedDraw(_, _, _, _, _, _)
\* The drawing loop of _add_feedback_text_to_pdf from line i on: the number
\* of lines drawn.
FixedDraw(i, n, max_lines, text_y, bottom, line_height) ==
    IF i >= n \/ i >= max_lines \/ text_y < bottom THEN i
    ELSE FixedDraw(i + 1, n, max_lines, text_y - Pt(line_height), bottom,
                   line_height)

_add_feedback_text_to_pdf(words, y_position, text_area_height, page_width, margin) ==
    LET max_text_width == page_width - 2 * margin - Pt(20)
        title_y == y_position - Pt(25)
        available_height == text_area_height - Pt(45)
        initial_font_size == InitialFontSize(Len(JoinLines(words)), 14)
        fit == FitFont(words, max_text_width, available_height,
                       initial_font_size, 10, 5)
        best_font_size == IF fit.fits THEN fit.font_size ELSE initial_font_size
        best_line_height == IF fit.fits THEN fit.line_height ELSE 18
        text_lines == _wrap_text_for_pdf(words, max_text_width, best_font_size, FALSE)
        \* int() truncates towards zero
        max_lines == IF available_height >= 0
                     THEN available_height \div Pt(best_line_height)
                     ELSE 0 - ((0 - available_height) \div Pt(best_line_height))
        drawn == FixedDraw(0, Len(text_lines), max_lines, title_y - Pt(30),
                           y_position - text_area_height + Pt(2), best_line_height)
    IN  [done |-> TRUE, font_size |-> best_font_size,
         line_height |-> best_line_height, lines |-> Len(text_lines),
         drawn |-> drawn, marker |-> Len(text_lines) > max_lines]

TextInit ==
    /\ AppInit
    /\ EditIdle
    /\ \E n \in TextSizes, h \in TextAreaHeights, pw \in {300, 595} :
          \/ \E o \in {"general", "webtoon"} :
                call = [fn |-> "_add_adaptive_feedback_text_natural",
                        words |-> TextOf(n), text_y |-> Pt(300),
                        text_area_height |-> Pt(h), page_width |-> Pt(pw),
                        margin |-> MarginPoints, orientation |-> o]
          \/ call = [fn |-> "_add_feedback_text_to_pdf",
                     words |-> TextOf(n), text_y |-> Pt(300),
                     text_area_height |-> Pt(h), page_width |-> Pt(pw),
                     margin |-> Pt(50), orientation |-> "general"]
    /\ frame = NoFrame
    /\ ret = NoRet

text_adaptive ==
    /\ call.fn = "_add_adaptive_feedback_text_natural"
    /\ ~ret.done
    /\ ret' = _add_adaptive_feedback_text_natural(call.words, call.text_y,
                  call.text_area_height, call.page_width, call.margin,
                  call.orientation)
    /\ UNCHANGED <<call, frame>>
    /\ UNCHANGED app_vars
    /\ UNCHANGED edit_vars

text_fixed ==
    /\ call.fn = "_add_feedback_text_to_pdf"
    /\ ~ret.done
    /\ ret' = _add_feedback_text_to_pdf(call.words, call.text_y,
                  call.text_area_height, call.page_width, call.margin)
    /\ UNCHANGED <<call, frame>>
    /\ UNCHANGED app_vars
    /\ UNCHANGED edit_vars

TextNext == text_adaptive \/ text_fixed

SpecText == TextInit /\ [][TextNext]_vars

\* C18: the font size chosen for the feedback text is at least 7pt, and
\* whenever a wrapped line is not drawn the "more" marker line is drawn, in
\* both text renderers.
C18_FontFloorAndSignalledTruncation ==
    ret.done /\ call.fn \in {"_add_adaptive_feedback_text_natural",
                             "_add_feedback_text_to_pdf"} =>
        /\ ret.font_size >= 7
        /\ ret.drawn < ret.lines => ret.marker

\* The same property for _add_feedback_text_to_pdf alone.
C18_FixedOnly ==
    ret.done /\ call.fn = "_add_feedback_text_to_pdf" =>
        /\ ret.font_size >= 7
        /\ ret.drawn < ret.lines => ret.marker

(***************************************************************************)
(* Annotating one item: creation of annotations on the card canvas, drag   *)
(* of a text annotation, extend_canvas and undo.  Coordinates are in       *)
(* thousandths of an image pixel.  current_item.origin is where the        *)
(* top-left pixel of the image the item was created with lies in the       *)
(* image the item holds now, and each annotation carries in "over" the     *)
(* coordinates, in the image the item was created with, of the pixels it   *)
(* was drawn over; current_item.before holds the annotations as they were  *)
(* before the most recent edit, until an undo or an extension.  None of    *)
(* the three exists in the program.                                        *)
(***************************************************************************)
\* Largest number of canvas extensions of the item.
MaxExtends == 2

\* Largest number of annotations of the item.
MaxDrawn == 2

Px(x) == x * 1000

\* Keys of an annotation that extend_canvas shifts to the right, and down.
XKeys == {"x", "start_x", "end_x", "x1", "x2"}

YKeys == {"y", "start_y", "end_y", "y1", "y2"}

\* The annotation a release of the mouse at canvas point <<ex, ey>> adds,
\* the drag having started 10 canvas pixels up and left of it.
NewAnnotation(type, ex, ey, image, canvas_width, canvas_height) ==
    LET sx == ex - 10
        sy == ey - 10
        X(x) == (x * Px(image.width)) \div canvas_width
        Y(y) == (y * Px(image.height)) \div canvas_height
    IN  CASE type \in {"text", "image"} -> [type |-> type, x |-> X(ex), y |-> Y(ey)]
          [] type = "pen" -> [type |-> type,
                              points |-> <<<<X(sx), Y(sy)>>, <<X(ex), Y(ey)>>>>]
          [] type \in {"arrow", "line"} ->
                               [type |-> type, start_x |-> X(sx), start_y |-> Y(sy),
                                end_x |-> X(ex), end_y |-> Y(ey)]
          [] OTHER -> [type |-> type, x1 |-> X(sx), y1 |-> Y(sy),
                       x2 |-> X(ex), y2 |-> Y(ey)]

\* The coordinates of an annotation moved by <<dx, dy>>, key by key.
Moved(coords, dx, dy) ==
    [k \in DOMAIN coords |->
        IF k \in XKeys THEN coords[k] + dx
        ELSE IF k \in YKeys THEN coords[k] + dy
        ELSE IF k = "points"
        THEN [i \in DOMAIN coords[k] |->
                 <<coords[k][i][1] + dx, coords[k][i][2] + dy>>]
        ELSE coords[k]]

\* The coordinate keys of an annotation.
Coords(ann) == [k \in DOMAIN ann \ {"type", "over"} |-> ann[k]]

\* The pixels of the first image under an annotation just created.
WithOver(ann, origin) ==
    [k \in DOMAIN ann \cup {"over"} |->
        IF k = "over" THEN Moved(Coords(ann), 0 - origin[1], 0 - origin[2])
        ELSE ann[k]]

\* save_state: a deque of at most 8 states.
save_state(history, annotations) ==
    LET h == Append(history, annotations)
    IN  IF Len(h) > 8 THEN Tail(h) ELSE h

\* The loops of extend_canvas over the annotations: left shifts the x keys
\* and the pen points by add_width, up the y keys by add_height.
ExtendShift(ann, direction, add) ==
    [k \in DOMAIN ann |->
        IF direction = "left" /\ k \in XKeys THEN ann[k] + add
        ELSE IF direction = "up" /\ k \in YKeys THEN ann[k] + add
        ELSE IF k = "points" /\ ann.type = "pen" /\ direction = "left"
        THEN [i \in DOMAIN ann[k] |-> <<ann[k][i][1] + add, ann[k][i][2]>>]
        ELSE IF k = "points" /\ ann.type = "pen" /\ direction = "up"
        THEN [i \in DOMAIN ann[k] |-> <<ann[k][i][1], ann[k][i][2] + add>>]
        ELSE ann[k]]

\* A new item: add_feedback_item saves the empty state.
EditInit ==
    /\ AppInit
    /\ call = NoCall
    /\ frame = NoFrame
    /\ ret = NoRet
    /\ current_item = [id |-> "item", image |-> [width |-> 400, height |-> 200],
                       annotations |-> <<>>, origin |-> <<0, 0>>, extends |-> 0,
                       before |-> [valid |-> FALSE, annotations |-> <<>>]]
    /\ histories = <<<<>>>>
    /\ current_index = 0

\* handle_button_release with a drawing tool, and
\* handle_text_annotation_immediate, on a canvas of half the image size: the
\* state is saved, then the annotation is appended.
add_annotation_direct ==
    /\ current_item.id # "none"
    /\ Len(current_item.annotations) < MaxDrawn
    /\ \E type \in {"text", "pen", "arrow", "rect"} :
          LET canvas_width == current_item.image.width \div 2
              canvas_height == current_item.image.height \div 2
              ann == NewAnnotation(type, 30, 20, current_item.image,
                                   canvas_width, canvas_height)
          IN  /\ histories' = save_state(histories, current_item.annotations)
              /\ current_item' =
                    [current_item EXCEPT
                        !.annotations = Append(@, WithOver(ann, current_item.origin)),
                        !.before = [valid |-> TRUE,
                                    annotations |-> current_item.annotations]]
    /\ UNCHANGED call_vars
    /\ UNCHANGED app_vars
    /\ UNCHANGED current_index

\* handle_motion and handle_button_release while a text annotation is
\* dragged by 50 canvas pixels to the right and down on a canvas of half the
\* image size: the annotation moves, then the state is saved.
drag_text ==
    /\ current_item.id # "none"
    /\ \E i \in DOMAIN current_item.annotations :
          LET ann == current_item.annotations[i]
              d == Px(100)
          IN  /\ ann.type = "text"
              /\ ann.x + d <= Px(current_item.image.width)
              /\ ann.y + d <= Px(current_item.image.height)
              /\ current_item' =
                    [current_item EXCEPT
                        !.annotations[i] = [ann EXCEPT !.x = @ + d, !.y = @ + d,
                                                       !.over = Moved(@, d, d)],
                        !.before = [valid |-> TRUE,
                                    annotations |-> current_item.annotations]]
              /\ histories' = save_state(histories, current_item'.annotations)
    /\ UNCHANGED call_vars
    /\ UNCHANGED app_vars
    /\ UNCHANGED current_index

extend_canvas ==
    /\ current_item.id # "none"
    /\ current_item.extends < MaxExtends
    /\ \E direction \in {"right", "left", "up", "down"}, percentage \in {50} :
          LET image == current_item.image
              add_width == (image.width * percentage) \div 100
              add_height == (image.height * percentage) \div 100
              wide == direction \in {"right", "left"}
              new_image == IF wide
                           THEN [width |-> image.width + add_width,
                                 height |-> image.height]
                           ELSE [width |-> image.width,
                                 height |-> image.height + add_height]
              paste == CASE direction = "left" -> <<add_width, 0>>
                         [] direction = "up" -> <<0, add_height>>
                         [] OTHER -> <<0, 0>>
              add == IF wide THEN Px(add_width) ELSE Px(add_height)
          IN  /\ histories' = save_state(histories, current_item.annotations)
              /\ current_item' =
                    [current_item EXCEPT
                        !.annotations = [i \in DOMAIN @ |->
                                            ExtendShift(@[i], direction, add)],
                        !.image = new_image,
                        !.origin = <<@[1] + Px(paste[1]), @[2] + Px(paste[2])>>,
                        !.extends = @ + 1,
                        !.before = [valid |-> FALSE, annotations |-> <<>>]]
    /\ UNCHANGED call_vars
    /\ UNCHANGED app_vars
    /\ UNCHANGED current_index

\* handle_undo: can_undo, then undo pops the last saved state and restores
\* the one before it; the image is left as it is.
handle_undo ==
    /\ current_item.id # "none"
    /\ Len(histories) > 1
    /\ histories' = SubSeq(histories, 1, Len(histories) - 1)
    /\ current_item' = [current_item EXCEPT
                           !.annotations = histories'[Len(histories')],
                           !.before = [valid |-> FALSE, annotations |-> <<>>]]
    /\ UNCHANGED call_vars
    /\ UNCHANGED app_vars
    /\ UNCHANGED current_index

EditNext == add_annotation_direct \/ drag_text \/ extend_canvas \/ handle_undo

SpecEdit == EditInit /\ [][EditNext]_vars

\* C19: every stored coordinate of every annotation of the item is the
\* coordinate, in the image the item holds now, of the pixel the annotation
\* was drawn over, after any sequence of creation, drag, extend_canvas and
\* undo.
C19_SourceImageSpace ==
    current_item.id # "none" =>
        \A i \in DOMAIN current_item.annotations :
            LET ann == current_item.annotations[i]
            IN  Coords(ann) = Moved(ann.over, current_item.origin[1],
                                    current_item.origin[2])

\* The same property as long as undo has not been used after an extension
\* to the left or upwards: creation, drag and extend_canvas keep it.
C19_WithoutUndo ==
    [][handle_undo \/ (C19_SourceImageSpace => C19_SourceImageSpace')]_vars

\* C21: when max_width holds at least one character and a hyphen and the
\* measure does not raise, no line _wrap_text_for_pdf returns is wider than
\* max_width, a word wider than max_width being split into pieces that fit.
C21_WrapNeverOverflows ==
    (/\ ret.done
     /\ call.fn = "_wrap_text_for_pdf"
     /\ ~call.raises
     /\ StringWidth(<<"x", "-">>, call.font_size) <= call.max_width) =>
        \A i \in DOMAIN ret.lines :
            StringWidth(ret.lines[i], call.font_size) <= call.max_width

\* C22: _add_adaptive_feedback_text_natural draws the text at the largest
\* font size s, from the start size for the length of the text down to 7pt,
\* at which (wrapped lines at s) x (s + 4) fits the available height, with
\* line height s + 4; the start size is used when the text fits at it.
C22_FirstFitFontSearch ==
    ret.done /\ call.fn = "_add_adaptive_feedback_text_natural" =>
        LET box_margin == IF call.orientation = "webtoon"
                          THEN Max(Pt(1), call.margin \div 5) ELSE call.margin
            width == call.page_width - 2 * box_margin
                         - (IF call.orientation = "webtoon" THEN Pt(8) ELSE Pt(20))
            start == InitialFontSize(Len(JoinLines(call.words)), 16)
            fitting == {s \in 7..start :
                           Pt(Len(_wrap_text_for_pdf(call.words, width, s, FALSE))
                              * (s + 4)) <= call.text_area_height - Pt(45)}
        IN  fitting # {} =>
                /\ \A s \in fitting : s <= ret.font_size
                /\ ret.font_size \in fitting
                /\ ret.line_height = ret.font_size + 4

(***************************************************************************)
(* The mapping of annotations from image pixels to the page                *)
(* (draw_vector_annotations_on_pdf) and to the zoomed canvas               *)
(* (draw_annotations_with_zoom).  The placed image is img_width x          *)
(* img_height points at <<img_x, img_y>>; the zoomed canvas has the same   *)
(* numbers of pixels, so that both renderers work at equal scales.  A page *)
(* abscissa is kept as its product with the image width in thousandths of  *)
(* a pixel, an ordinate as its product with the image height, so that no   *)
(* division is needed; stroke widths are in thousandths.                   *)
(***************************************************************************)
\* min(scale_x, scale_y) as a fraction <<numerator, denominator>>.
MinScale(image, width, height) ==
    IF width * image.height <= height * image.width
    THEN <<width, image.width>> ELSE <<height, image.height>>

\* Variant of the vertices of draw_vector_annotations_on_pdf: y is not
\* flipped.
PageVertices_NoFlip(c) ==
    LET a == c.annotation
        X(x) == c.img_x * Px(c.image.width) + x * c.img_width
        Y(y) == c.img_y * Px(c.image.height) + y * c.img_height
    IN  CASE a.type \in {"arrow", "line"} ->
                 <<<<X(a.start_x), Y(a.start_y)>>, <<X(a.end_x), Y(a.end_y)>>>>
          [] a.type = "pen" ->
                 [i \in DOMAIN a.points |-> <<X(a.points[i][1]), Y(a.points[i][2])>>]
          [] a.type \in {"oval", "rect"} ->
                 <<<<X(a.x1), Y(a.y1)>>, <<X(a.x2), Y(a.y2)>>>>
          [] OTHER -> <<<<X(a.x), Y(a.y)>>>>

\* The page vertices draw_vector_annotations_on_pdf computes for the
\* annotation of call c, branch by branch.
PageVertices(c) ==
    LET a == c.annotation
        X(x) == c.img_x * Px(c.image.width) + x * c.img_width
        Y(y) == c.img_y * Px(c.image.height)
                    + (Px(c.image.height) - y) * c.img_height
    IN  CASE a.type \in {"arrow", "line"} ->
                 <<<<X(a.start_x), Y(a.start_y)>>, <<X(a.end_x), Y(a.end_y)>>>>
          [] a.type = "pen" ->
                 [i \in DOMAIN a.points |-> <<X(a.points[i][1]), Y(a.points[i][2])>>]
          [] a.type \in {"oval", "rect"} ->
                 <<<<X(a.x1), Y(a.y1)>>, <<X(a.x2), Y(a.y2)>>>>
          [] OTHER -> <<<<X(a.x), Y(a.y)>>>>

\* Variant of the page stroke width without the factor 0.7.
PageLineWidth_Unscaled(c) ==
    LET s == MinScale(c.image, c.img_width, c.img_height)
    IN  Max(1000, (c.width * s[1] * 1000) \div s[2])

\* line_width = max(1.0, base_width * min(scale_x, scale_y) * 0.7)
PageLineWidth(c) ==
    LET s == MinScale(c.image, c.img_width, c.img_height)
    IN  Max(1000, (c.width * s[1] * 700) \div s[2])

\* pdf_font_size = max(10, int(base_font_size * scale_factor * 1.15))
PageFontSize(c) ==
    LET s == MinScale(c.image, c.img_width, c.img_height)
    IN  Max(10, (c.font_size * s[1] * 115) \div (s[2] * 100))

MapInit ==
    /\ AppInit
    /\ EditIdle
    /\ \E image \in {[width |-> 400, height |-> 200], [width |-> 800, height |-> 1200]},
          rect \in {<<50, 25, 200, 100>>, <<14, 14, 500, 700>>, <<14, 80, 567, 700>>},
          type \in {"arrow", "line", "pen", "rect", "oval", "text", "image"},
          e \in {<<0, 0>>, <<1, 2>>, <<2, 2>>},
          width \in {1, 3, 10},
          font_size \in {12, 14, 30} :
             call = [fn |-> "draw_vector_annotations_on_pdf", image |-> image,
                     img_x |-> rect[1], img_y |-> rect[2],
                     img_width |-> rect[3], img_height |-> rect[4],
                     annotation |-> NewAnnotation(type,
                                        Max(10, (image.width * e[1]) \div 2),
                                        Max(10, (image.height * e[2]) \div 2),
                                        image, image.width, image.height),
                     width |-> width, font_size |-> font_size]
    /\ frame = NoFrame
    /\ ret = NoRet

draw_vector_annotations_on_pdf ==
    /\ call.fn = "draw_vector_annotations_on_pdf"
    /\ ~ret.done
    /\ ret' = [done |-> TRUE, points |-> PageVertices(call),
               line_width |-> PageLineWidth(call),
               font_size |-> PageFontSize(call)]
    /\ UNCHANGED <<call, frame>>
    /\ UNCHANGED app_vars
    /\ UNCHANGED edit_vars

\* draw_annotations_with_zoom on a canvas of img_width x img_height pixels:
\* width = max(1, int(width * min(scale_x, scale_y))), font_size =
\* max(8, int(font_size * min(scale_x, scale_y))).
draw_annotations_with_zoom ==
    /\ call.fn = "draw_vector_annotations_on_pdf"
    /\ frame = NoFrame
    /\ LET s == MinScale(call.image, call.img_width, call.img_height)
       IN  frame' = [at |-> "drawn",
                     width |-> Max(1, (call.width * s[1]) \div s[2]),
                     font_size |-> Max(8, (call.font_size * s[1]) \div s[2])]
    /\ UNCHANGED <<call, ret>>
    /\ UNCHANGED app_vars
    /\ UNCHANGED edit_vars

MapNext == draw_vector_annotations_on_pdf \/ draw_annotations_with_zoom

SpecMap == MapInit /\ [][MapNext]_vars

\* The vertices of the annotation of the call, in image pixels (thousandths).
C23_Vertices ==
    LET a == call.annotation
    IN  IF "points" \in DOMAIN a THEN a.points
        ELSE IF "x" \in DOMAIN a THEN <<<<a.x, a.y>>>>
        ELSE IF "x1" \in DOMAIN a THEN <<<<a.x1, a.y1>>, <<a.x2, a.y2>>>>
        ELSE <<<<a.start_x, a.start_y>>, <<a.end_x, a.end_y>>>>

\* C23: every vertex <<x, y>> of a vector-emitted annotation is mapped to
\* x' = img_x + x * img_width / imgW, y' = img_y + (imgH - y) * img_height /
\* imgH; pixel (0,0) maps to the top-left and (imgW, imgH) to the
\* bottom-right corner of the placed image, and every vertex maps inside
\* the placed image.
C23_ImageToPageMapping ==
    ret.done /\ call.fn = "draw_vector_annotations_on_pdf" =>
        LET W == Px(call.image.width)
            H == Px(call.image.height)
        IN  /\ Len(ret.points) = Len(C23_Vertices)
            /\ \A i \in DOMAIN C23_Vertices :
                  LET v == C23_Vertices[i]
                      m == ret.points[i]
                  IN  /\ m[1] = call.img_x * W + v[1] * call.img_width
                      /\ m[2] = call.img_y * H + (H - v[2]) * call.img_height
                      /\ v = <<0, 0>> =>
                            m = <<call.img_x * W, (call.img_y + call.img_height) * H>>
                      /\ v = <<W, H>> =>
                            m = <<(call.img_x + call.img_width) * W, call.img_y * H>>
                      /\ call.img_x * W <= m[1]
                      /\ m[1] <= (call.img_x + call.img_width) * W
                      /\ call.img_y * H <= m[2]
                      /\ m[2] <= (call.img_y + call.img_height) * H

\* An arrow from pixel (0,0) to the middle of the image has been mapped.
C23_Witness ==
    /\ ret.done
    /\ call.fn = "draw_vector_annotations_on_pdf"
    /\ call.annotation.type = "arrow"
    /\ C23_Vertices[1] = <<0, 0>>
    /\ C23_Vertices[2] # <<0, 0>>
    /\ ret.points[1] = <<call.img_x * Px(call.image.width),
                         (call.img_y + call.img_height) * Px(call.image.height)>>

\* C24 as stated: the page stroke width is max(1.0, width x min scale), the
\* page font size max(8, font_size x min scale), and the zoomed canvas uses
\* the same values.
C24_Original ==
    ret.done /\ frame # NoFrame /\ call.fn = "draw_vector_annotations_on_pdf" =>
        LET s == MinScale(call.image, call.img_width, call.img_height)
        IN  /\ ret.line_width = Max(1000, (call.width * s[1] * 1000) \div s[2])
            /\ ret.font_size = Max(8, (call.font_size * s[1]) \div s[2])
            /\ ret.line_width \div 1000 = frame.width
            /\ ret.font_size = frame.font_size

\* C24: the page stroke width is max(1.0, width x min scale x 0.7) and the
\* page font size max(10, int(font_size x min scale x 1.15)); the zoomed
\* canvas uses max(1, int(width x min scale)) and max(8, int(font_size x min
\* scale)); so the page stroke is never wider than the zoomed canvas's
\* width + 1 and the page font never smaller than the zoomed canvas's.
C24_StrokeAndFontScaling ==
    ret.done /\ frame # NoFrame /\ call.fn = "draw_vector_annotations_on_pdf" =>
        LET s == MinScale(call.image, call.img_width, call.img_height)
        IN  /\ ret.line_width = Max(1000, (call.width * s[1] * 700) \div s[2])
            /\ ret.font_size = Max(10, (call.font_size * s[1] * 115) \div (s[2] * 100))
            /\ frame.width = Max(1, (call.width * s[1]) \div s[2])
            /\ frame.font_size = Max(8, (call.font_size * s[1]) \div s[2])
            /\ ret.line_width < Px(frame.width + 1)
            /\ ret.font_size >= frame.font_size

\* Both renderers have drawn an annotation whose scaled stroke is above
\* the floor: the page's is thinner than the zoomed canvas's.
C24_Witness ==
    /\ ret.done
    /\ frame # NoFrame
    /\ call.fn = "draw_vector_annotations_on_pdf"
    /\ ret.line_width > 1000
    /\ ret.line_width < Px(frame.width)
    /\ ret.font_size > frame.font_size

(***************************************************************************)
(* Rectangle multi-select: annotation_in_rect, called by                   *)
(* get_annotations_in_selection with the selection rectangle in image      *)
(* pixels.                                                                 *)
(***************************************************************************)
annotation_in_rect(a, min_x, min_y, max_x, max_y) ==
    LET Inside(x, y) == min_x <= x /\ x <= max_x /\ min_y <= y /\ y <= max_y
    IN  CASE a.type \in {"arrow", "line"} ->
                 IF {"start_x", "start_y", "end_x", "end_y"} \subseteq DOMAIN a
                 THEN Inside(a.start_x, a.start_y) \/ Inside(a.end_x, a.end_y)
                 ELSE FALSE
          [] a.type = "pen" ->
                 \E i \in DOMAIN a.points : Inside(a.points[i][1], a.points[i][2])
          [] a.type \in {"oval", "rect"} ->
                 Inside(a.x1, a.y1) \/ Inside(a.x2, a.y2)
          [] a.type = "text" ->
                 LET text_width == Max((a.text_len * a.font_size * 7) \div 10, 60)
                     text_height == Max((a.font_size * 15) \div 10, 25)
                     margin == 15
                 IN  ~(\/ a.x + text_width + margin < min_x
                       \/ a.x - margin > max_x
                       \/ a.y + text_height + margin < min_y
                       \/ a.y - margin > max_y)
          [] a.type = "image" ->
                 ~(\/ a.x + a.width < min_x
                   \/ a.x > max_x
                   \/ a.y + a.height < min_y
                   \/ a.y > max_y)
          [] OTHER -> FALSE

SelectInit ==
    /\ AppInit
    /\ EditIdle
    /\ \E type \in {"arrow", "line", "pen", "rect", "oval", "text", "image", "malformed"},
          p \in {0, 100, 300} \X {0, 100, 300}, q \in {0, 200, 300} \X {0, 200, 300},
          lo \in {50, 150} \X {50, 150}, hi \in {150, 250} \X {150, 250} :
             call = [fn |-> "annotation_in_rect",
                     min_x |-> lo[1], min_y |-> lo[2], max_x |-> hi[1], max_y |-> hi[2],
                     annotation |->
                        CASE type \in {"arrow", "line"} ->
                                 [type |-> type, start_x |-> p[1], start_y |-> p[2],
                                  end_x |-> q[1], end_y |-> q[2]]
                          [] type = "pen" ->
                                 [type |-> type, points |-> <<p, <<p[1], q[2]>>, q>>]
                          [] type \in {"oval", "rect"} ->
                                 [type |-> type, x1 |-> p[1], y1 |-> p[2],
                                  x2 |-> q[1], y2 |-> q[2]]
                          [] type = "text" ->
                                 [type |-> type, x |-> p[1], y |-> p[2],
                                  text_len |-> 5, font_size |-> 14]
                          [] type = "image" ->
                                 [type |-> type, x |-> p[1], y |-> p[2],
                                  width |-> 20 + q[1] \div 10, height |-> 20 + q[2] \div 10]
                          [] OTHER -> [type |-> "arrow", start_x |-> p[1]]]
    /\ frame = NoFrame
    /\ ret = NoRet

get_annotations_in_selection ==
    /\ call.fn = "annotation_in_rect"
    /\ ~ret.done
    /\ ret' = [done |-> TRUE,
               selected |-> annotation_in_rect(call.annotation, call.min_x,
                                call.min_y, call.max_x, call.max_y)]
    /\ UNCHANGED <<call, frame>>
    /\ UNCHANGED app_vars
    /\ UNCHANGED edit_vars

SpecSelect == SelectInit /\ [][get_annotations_in_selection]_vars

\* The bounding box <<left, top, right, bottom>> of the annotation of the
\* call: of its endpoints, points or corners, of the text from its anchor
\* (width max(0.7 x length x font size, 60), height max(1.5 x font size,
\* 25)), of the image from its anchor.
C25_BoundingBox ==
    LET a == call.annotation
        Box(xs, ys) == <<CHOOSE x \in xs : \A z \in xs : x <= z,
                         CHOOSE y \in ys : \A z \in ys : y <= z,
                         CHOOSE x \in xs : \A z \in xs : x >= z,
                         CHOOSE y \in ys : \A z \in ys : y >= z>>
    IN  IF "points" \in DOMAIN a
        THEN Box({a.points[i][1] : i \in DOMAIN a.points},
                 {a.points[i][2] : i \in DOMAIN a.points})
        ELSE IF "x1" \in DOMAIN a THEN Box({a.x1, a.x2}, {a.y1, a.y2})
        ELSE IF a.type = "text"
        THEN <<a.x, a.y, a.x + Max((a.text_len * a.font_size * 7) \div 10, 60),
               a.y + Max((a.font_size * 15) \div 10, 25)>>
        ELSE IF a.type = "image" THEN <<a.x, a.y, a.x + a.width, a.y + a.height>>
        ELSE Box({a.start_x, a.end_x}, {a.start_y, a.end_y})

\* C25: annotation_in_rect is true exactly when the bounding box of the
\* annotation intersects the selection rectangle, for every type, also
\* when the annotation crosses or encloses the selection rectangle; a
\* malformed annotation gives false.
C25_ExactRectSelect ==
    ret.done /\ call.fn = "annotation_in_rect" =>
        IF call.annotation.type \in {"arrow", "line"}
               /\ "end_x" \notin DOMAIN call.annotation
        THEN ret.selected = FALSE
        ELSE LET b == C25_BoundingBox
             IN  ret.selected = (/\ b[1] <= call.max_x
                                 /\ b[3] >= call.min_x
                                 /\ b[2] <= call.max_y
                                 /\ b[4] >= call.min_y)

(***************************************************************************)
(* The footer, with a footer text set and "footer on the first page only"  *)
(* switched on.  create_pdf_title_page draws it; create_vector_pdf_page    *)
(* and create_transparent_pdf_page, the pages of the A4 driver with a      *)
(* margin of 50pt, draw it for index 0 when there is no title page;        *)
(* _fallback_pdf_page and _adaptive_pdf_page_global have no footer code.   *)
(***************************************************************************)
FooterDrawn(p) ==
    \/ p.compositor = TITLE
    \/ /\ p.compositor \in {VECTOR, FLATTEN}
       /\ pdf_page_mode # "adaptive"
       /\ p.margin = Pt(50)
       /\ skip_title_page
       /\ p.item = 0

\* C26: in a document exported with success, the footer is on exactly one
\* page: the title page when there is one, otherwise the page of the first
\* feedback item, whichever page path drew it.
C26_FooterOnFirstPageOnly ==
    result = "success" =>
        /\ Cardinality({k \in 1..Len(pages) : FooterDrawn(pages[k])}) = 1
        /\ \A k \in 1..Len(pages) :
              FooterDrawn(pages[k]) =>
                  IF skip_title_page THEN pages[k].item = 0
                  ELSE pages[k].compositor = TITLE

\* The same property for the A4 driver when the page of the first item is
\* drawn by create_vector_pdf_page or create_transparent_pdf_page, and for
\* every document with a title page.
C26_PrimaryFixedPages ==
    (/\ result = "success"
     /\ \/ ~skip_title_page
        \/ /\ pdf_page_mode # "adaptive"
           /\ \E k \in 1..Len(pages) :
                 pages[k].item = 0 /\ pages[k].margin = Pt(50)) =>
        Cardinality({k \in 1..Len(pages) : FooterDrawn(pages[k])}) = 1

\* C27: an undo that follows an edit (an annotation added, a text dragged)
\* restores the annotations to what they were immediately before that edit.
C27_UndoRevertsOneEdit ==
    [][handle_undo /\ current_item.before.valid =>
           current_item'.annotations = current_item.before.annotations]_vars

(***************************************************************************)
(* The list of items: add_feedback_item (its deferred add_item),           *)
(* delete_current, move_current_up, move_current_down and the selection of *)
(* an item by a click on its card, and the drawing of an annotation on the *)
(* current item.  An item is given by its id and its annotations;          *)
(* histories maps an id to the states saved under it.                      *)
(***************************************************************************)
ItemsInit ==
    /\ AppInit
    /\ call = NoCall
    /\ frame = NoFrame
    /\ ret = NoRet
    /\ current_item = [id |-> "none"]
    /\ histories = [id \in {} |-> <<>>]
    /\ current_index = -1

\* add_item: item_id = len(self.feedback_items); the item is appended and
\* selected, and the empty state is saved under its id.
add_item ==
    /\ Len(feedback_items) < MaxItems
    /\ LET item_id == Len(feedback_items)
       IN  /\ feedback_items' = Append(feedback_items,
                                        [id |-> item_id, annotations |-> <<>>])
           /\ current_index' = Len(feedback_items') - 1
           /\ histories' =
                 IF item_id \in DOMAIN histories
                 THEN [histories EXCEPT ![item_id] = save_state(@, <<>>)]
                 ELSE [id \in DOMAIN histories \cup {item_id} |->
                          IF id = item_id THEN <<<<>>>> ELSE histories[id]]
    /\ UNCHANGED <<pdf_quality, pdf_page_mode, skip_title_page, adaptive_layout,
                   export_vars, current_item>>
    /\ UNCHANGED call_vars

\* Variant of delete_current: current_index is left as it is.
delete_current_KeepIndex ==
    /\ feedback_items # <<>>
    /\ LET deleted_item == feedback_items[current_index + 1]
       IN  /\ feedback_items' = [k \in 1..(Len(feedback_items) - 1) |->
                                    IF k <= current_index THEN feedback_items[k]
                                    ELSE feedback_items[k + 1]]
           /\ histories' = [histories EXCEPT ![deleted_item.id] = <<>>]
           /\ current_index' = current_index
    /\ UNCHANGED <<pdf_quality, pdf_page_mode, skip_title_page, adaptive_layout,
                   export_vars, current_item>>
    /\ UNCHANGED call_vars

\* delete_current, confirmed: the current item is popped, its history
\* cleared, and current_index brought back into the list.
delete_current ==
    /\ feedback_items # <<>>
    /\ LET deleted_item == feedback_items[current_index + 1]
       IN  /\ feedback_items' = [k \in 1..(Len(feedback_items) - 1) |->
                                    IF k <= current_index THEN feedback_items[k]
                                    ELSE feedback_items[k + 1]]
           /\ histories' = [histories EXCEPT ![deleted_item.id] = <<>>]
           /\ current_index' = IF current_index >= Len(feedback_items')
                               THEN Max(0, Len(feedback_items') - 1)
                               ELSE current_index
    /\ UNCHANGED <<pdf_quality, pdf_page_mode, skip_title_page, adaptive_layout,
                   export_vars, current_item>>
    /\ UNCHANGED call_vars

move_current_up ==
    /\ current_index > 0
    /\ feedback_items' = [feedback_items EXCEPT
                             ![current_index + 1] = feedback_items[current_index],
                             ![current_index] = feedback_items[current_index + 1]]
    /\ current_index' = current_index - 1
    /\ UNCHANGED <<pdf_quality, pdf_page_mode, skip_title_page, adaptive_layout,
                   export_vars, current_item, histories>>
    /\ UNCHANGED call_vars

move_current_down ==
    /\ current_index < Len(feedback_items) - 1
    /\ feedback_items' = [feedback_items EXCEPT
                             ![current_index + 1] = feedback_items[current_index + 2],
                             ![current_index + 2] = feedback_items[current_index + 1]]
    /\ current_index' = current_index + 1
    /\ UNCHANGED <<pdf_quality, pdf_page_mode, skip_title_page, adaptive_layout,
                   export_vars, current_item, histories>>
    /\ UNCHANGED call_vars

\* handle_button_release on the card of the current item with the pen: the
\* state is saved under the id of the item, then the annotation is appended.
handle_button_release ==
    /\ 0 <= current_index
    /\ current_index < Len(feedback_items)
    /\ LET item == feedback_items[current_index + 1]
       IN  /\ Len(item.annotations) < MaxDrawn
           /\ histories' = [histories EXCEPT
                                ![item.id] = save_state(@, item.annotations)]
           /\ feedback_items' =
                 [feedback_items EXCEPT
                     ![current_index + 1].annotations = Append(@, [type |-> "pen"])]
    /\ UNCHANGED <<pdf_quality, pdf_page_mode, skip_title_page, adaptive_layout,
                   export_vars, current_item, current_index>>
    /\ UNCHANGED call_vars

\* A click on the card of another item.
set_current_index_no_refresh ==
    /\ \E card \in 0..(Len(feedback_items) - 1) :
          /\ current_index # card
          /\ current_index' = card
    /\ UNCHANGED <<feedback_items, pdf_quality, pdf_page_mode, skip_title_page,
                   adaptive_layout, export_vars, current_item, histories>>
    /\ UNCHANGED call_vars

ItemsNext ==
    \/ add_item
    \/ delete_current
    \/ move_current_up
    \/ move_current_down
    \/ set_current_index_no_refresh
    \/ handle_button_release

SpecItems == ItemsInit /\ [][ItemsNext]_vars

\* C28: the items of feedback_items have pairwise distinct ids.
C28_UniqueItemIds ==
    \A i, j \in 1..Len(feedback_items) :
        feedback_items[i].id = feedback_items[j].id => i = j

\* C29: feedback_items is empty or current_index is an index of it; a move
\* up or down exchanges the current item with its neighbour, leaves the
\* other items in place and lets current_index follow the moved item.
C29_CurrentIndexValid ==
    /\ [](feedback_items = <<>>
            \/ (0 <= current_index /\ current_index < Len(feedback_items)))
    /\ [][(move_current_up \/ move_current_down) =>
             /\ Len(feedback_items') = Len(feedback_items)
             /\ feedback_items'[current_index' + 1] = feedback_items[current_index + 1]
             /\ feedback_items'[current_index + 1] = feedback_items[current_index' + 1]
             /\ current_index' \in {current_index - 1, current_index + 1}
             /\ \A k \in 1..Len(feedback_items) :
                   k \notin {current_index + 1, current_index' + 1} =>
                       feedback_items'[k] = feedback_items[k]]_vars

\* The second item added has been moved to the front and is the current
\* one.
C29_Witness ==
    /\ Len(feedback_items) = 2
    /\ feedback_items[1].id = 1
    /\ feedback_items[2].id = 0
    /\ current_index = 0

(***************************************************************************)
(* AsyncTaskManager: one worker thread takes the tasks from task_queue,    *)
(* runs them and posts a lambda to the Tk event loop for the callback.     *)
(* The lambda closes over the variables task and result of worker, which   *)
(* the worker rebinds on its next turn of the loop; the UI thread reads    *)
(* them when it runs the lambda.  Here call holds the manager and the      *)
(* pending events of root.after, frame the variables of worker, and ret    *)
(* what has been executed and invoked.  A task is identified by its place  *)
(* in the order of submission, its result by the id of the task that       *)
(* computed it; callback is the id of the task again, or 0 for a task      *)
(* submitted with callback=None.  No result is 0 until the first is bound. *)
(* Tasks whose func raises are left out.                                   *)
(***************************************************************************)
MaxTasks == 3

TasksInit ==
    /\ AppInit
    /\ EditIdle
    /\ call = [fn |-> "AsyncTaskManager", task_queue |-> <<>>, submitted |-> 0,
               after |-> <<>>]
    /\ frame = [at |-> "get", task |-> "unbound", result |-> 0]
    /\ ret = [done |-> FALSE, executed |-> <<>>, invoked |-> <<>>]

\* submit_task: the task is put on the queue, with or without a callback.
submit_task ==
    /\ call.fn = "AsyncTaskManager"
    /\ call.submitted < MaxTasks
    /\ \E has_callback \in BOOLEAN :
          LET id == call.submitted + 1
              task == [id |-> id, callback |-> IF has_callback THEN id ELSE 0]
          IN  call' = [call EXCEPT !.task_queue = Append(@, task),
                                   !.submitted = id]
    /\ UNCHANGED <<frame, ret>>
    /\ UNCHANGED app_vars
    /\ UNCHANGED edit_vars

\* worker: task = self.task_queue.get(timeout=1), with a task on the queue.
\* On queue.Empty the loop continues with task and result as they were.
worker_get ==
    /\ call.fn = "AsyncTaskManager"
    /\ frame.at = "get"
    /\ call.task_queue # <<>>
    /\ frame' = [frame EXCEPT !.at = "func", !.task = Head(call.task_queue)]
    /\ call' = [call EXCEPT !.task_queue = Tail(@)]
    /\ UNCHANGED ret
    /\ UNCHANGED app_vars
    /\ UNCHANGED edit_vars

\* worker: result = task['func'](...); then if task['callback'].
worker_func ==
    /\ call.fn = "AsyncTaskManager"
    /\ frame.at = "func"
    /\ frame' = [frame EXCEPT !.result = frame.task.id,
                              !.at = IF frame.task.callback # 0
                                     THEN "after" ELSE "get"]
    /\ ret' = [ret EXCEPT !.executed = Append(@, frame.task.id)]
    /\ UNCHANGED call
    /\ UNCHANGED app_vars
    /\ UNCHANGED edit_vars

\* worker: self.root.after(0, lambda: task['callback'](result)).  The event
\* is recorded with the id of the task it was posted for.
worker_after ==
    /\ call.fn = "AsyncTaskManager"
    /\ frame.at = "after"
    /\ call' = [call EXCEPT !.after = Append(@, frame.task.id)]
    /\ frame' = [frame EXCEPT !.at = "get"]
    /\ UNCHANGED ret
    /\ UNCHANGED app_vars
    /\ UNCHANGED edit_vars

\* The UI thread runs the oldest pending lambda: task and result are read
\* as the worker has bound them by now.  With callback None (0) the call
\* raises TypeError.
after_callback ==
    /\ call.fn = "AsyncTaskManager"
    /\ call.after # <<>>
    /\ ret' = [ret EXCEPT !.invoked =
                  Append(@, [posted |-> Head(call.after),
                             callback |-> frame.task.callback,
                             result |-> frame.result])]
    /\ call' = [call EXCEPT !.after = Tail(@)]
    /\ UNCHANGED frame
    /\ UNCHANGED app_vars
    /\ UNCHANGED edit_vars

TasksNext ==
    \/ submit_task
    \/ worker_get
    \/ worker_func
    \/ worker_after
    \/ after_callback

SpecTasks == TasksInit /\ [][TasksNext]_vars

\* C30: the tasks are executed once each in the order of submission, and
\* every callback invocation is the one posted for a task, invoking the
\* callback of that task with the result of that task, once per task.
C30_CallbacksToTheRightTask ==
    /\ \A k \in 1..Len(ret.executed) : ret.executed[k] = k
    /\ \A k \in 1..Len(ret.invoked) :
          /\ ret.invoked[k].callback = ret.invoked[k].posted
          /\ ret.invoked[k].result = ret.invoked[k].posted
    /\ \A j, k \in 1..Len(ret.invoked) :
          ret.invoked[j].callback = ret.invoked[k].callback => j = k

====
